---- MODULE Spec2Model ----
(***************************************************************************)
(* gr-fosphor sink (lib/base_sink_c_impl.cc): the sample FIFO between the  *)
(* scheduler thread (work) and the render thread (worker / render), the    *)
(* dirty-bit register (settings_mark_changed /                             *)
(* settings_get_and_reset_changed), the worker life cycle (start / stop /  *)
(* worker), the process-wide boot mutex, the UI actions and callbacks of   *)
(* the control threads, and the channel overlays of fosphor_gl_draw        *)
(* (lib/fosphor/gl.c).                                                     *)
(*                                                                         *)
(* fifo.h / fifo.cc and base_sink_c_impl.h are not part of the sources at  *)
(* hand: the FIFO operators and the names of the setting categories follow *)
(* the written design (sections 3, 4.1 and 4.3).                           *)
(***************************************************************************)
EXTENDS Integers, Sequences, FiniteSets, TLC

(***************************************************************************)
(* Bounds of the model                                                     *)
(***************************************************************************)
NSinks   == 2      \* sink instances of the process
MaxWork  == 3      \* work() calls of the scheduler per sink
MaxStart == 2      \* start() calls per sink
MaxCtl   == 1      \* calls (setters, UI actions, callbacks) per control thread
MaxUi    == 5      \* calls of the GUI thread, one after the other
MaxLog   == 2      \* calls of the GUI thread the call log remembers
MaxChannels == 3   \* channel descriptors of a pane

Sinks == 1 .. NSinks

(***************************************************************************)
(* Program constants                                                       *)
(***************************************************************************)
FIFO_LENGTH      == 2097152   \* new fifo(2 * 1024 * 1024)
FFT_SIZE_DEFAULT == 1024      \* d_fft_size(1024)
batch_mult       == 16
batch_max        == 1024
max_iter         == 8

NULL == -1

\* Noutput_items values the scheduler hands to work()
Requests == {1000, 16384, 2097152}

\* Noutput_items values of a stream of full buffers after one short one
StallRequests == {16384, 2097152}

\* FFT lengths set while samples are queued
StallFftSizes == {512, 4096}

\* FFT lengths a caller passes to set_fft_size (one unsupported)
FftSizes == {512, 1024, 1000, 4096}

\* FFT lengths of the backend a pane is drawn for
BinCounts == {512, 1024, 4096}

\* binary exponents e of a zoom width 0.2 * 2^e the ZOOM_WIDTH_UP key gave
ZoomExps == {0, 3, 5}

\* frequency divisions of a pane (render->freq_n_div)
FreqDivs == {2, 10}

\* render options an application clears in a descriptor before drawing
ClearedOptions == { {}, {"live", "max-hold", "histogram"} }

\* total sizes the GUI hands to cb_reshape
Widths  == {180, 200}
Heights == {100}

\* values fosphor_render_pos_inside returns for a point (bit 0: the point is
\* inside the plotted region of the pane)
PosInside == {0, 1, 2}

Min(a, b) == IF a < b THEN a ELSE b

\* a & ~b on non-negative ints
RECURSIVE AndNot(_, _)
AndNot(a, b) ==
    IF a = 0 THEN 0
    ELSE (IF a % 2 = 1 /\ b % 2 = 0 THEN 1 ELSE 0)
         + 2 * AndNot(a \div 2, b \div 2)

(***************************************************************************)
(* Single-precision arithmetic.  A float is held as an integer count of a  *)
(* fixed power-of-two unit; a sum, difference or product is first formed   *)
(* exactly and then rounded to 24 significant bits, ties to even.          *)
(***************************************************************************)
RECURSIVE F32Ulp(_, _)
F32Ulp(n, p2) == IF n \div p2 < 2 ^ 24 THEN p2 ELSE F32Ulp(n, 2 * p2)

F32Round(n) ==
    LET p2 == F32Ulp(n, 1)
        q  == n \div p2
        r  == n % p2
    IN  (IF 2 * r > p2 \/ (2 * r = p2 /\ q % 2 = 1) THEN q + 1 ELSE q) * p2

\* the same for a negative count
F32RoundS(n) == IF n < 0 THEN 0 - F32Round(0 - n) ELSE F32Round(n)

\* n / d for a positive integer d: the exact quotient rounded the same way
F32Div(n, d) ==
    LET p2 == F32Ulp(n \div d, 1)
        m  == d * p2
        q  == n \div m
        r  == n % m
    IN  (IF 2 * r > m \/ (2 * r = m /\ q % 2 = 1) THEN q + 1 ELSE q) * p2

(***************************************************************************)
(* Double- and single-precision arithmetic on values of any size.  A       *)
(* magnitude is the sequence of its digits to the base 2^15, lowest first, *)
(* counting units of 2^-FracBits; a number is a sign and a magnitude.  A   *)
(* result is formed exactly and then rounded to 53 (double) or 24 (float)  *)
(* significant bits, ties to even.                                         *)
(***************************************************************************)
DigitBits == 15
Base      == 2 ^ DigitBits
FracBits  == 4 * DigitBits

RECURSIVE DigitsOf(_)
DigitsOf(n) == IF n = 0 THEN << >> ELSE << n % Base >> \o DigitsOf(n \div Base)

RECURSIVE DigitsToInt(_)
DigitsToInt(b) ==
    IF b = << >> THEN 0 ELSE b[1] + Base * DigitsToInt(Tail(b))

Zeros(n) == [i \in 1 .. n |-> 0]

RECURSIVE Trim(_)
Trim(b) ==
    IF b = << >> \/ b[Len(b)] # 0 THEN b
    ELSE Trim(SubSeq(b, 1, Len(b) - 1))

\* b * m + c for 0 <= m <= Base, 0 <= c < Base
RECURSIVE MulC(_, _, _)
MulC(b, m, c) ==
    IF b = << >> THEN (IF c = 0 THEN << >> ELSE << c >>)
    ELSE LET u == b[1] * m + c
         IN  << u % Base >> \o MulC(Tail(b), m, u \div Base)

\* b * 2^n
Shl(b, n) ==
    IF b = << >> THEN b
    ELSE Zeros(n \div DigitBits) \o MulC(b, 2 ^ (n % DigitBits), 0)

\* b / 2^k for k < DigitBits, the low k bits dropped
Shr(b, k) ==
    Trim([i \in 1 .. Len(b) |->
             (b[i] \div 2 ^ k)
             + (IF i < Len(b) THEN (b[i + 1] % 2 ^ k) * 2 ^ (DigitBits - k)
                ELSE 0)])

RECURSIVE AddC(_, _, _)
AddC(a, b, c) ==
    IF a = << >> /\ b = << >> THEN (IF c = 1 THEN << 1 >> ELSE << >>)
    ELSE LET x == IF a = << >> THEN 0 ELSE a[1]
             y == IF b = << >> THEN 0 ELSE b[1]
             u == x + y + c
         IN  << u % Base >>
             \o AddC(IF a = << >> THEN a ELSE Tail(a),
                     IF b = << >> THEN b ELSE Tail(b), u \div Base)

Add(a, b) == AddC(a, b, 0)

\* a - b - c for a >= b + c
RECURSIVE SubC(_, _, _)
SubC(a, b, c) ==
    IF a = << >> THEN << >>
    ELSE LET y == IF b = << >> THEN 0 ELSE b[1]
             u == a[1] - y - c
         IN  << u % Base >>
             \o SubC(Tail(a), IF b = << >> THEN b ELSE Tail(b),
                     IF u < 0 THEN 1 ELSE 0)

Sub(a, b) == Trim(SubC(a, b, 0))

\* a < b, both without leading zeros
Less(a, b) ==
    IF Len(a) # Len(b) THEN Len(a) < Len(b)
    ELSE \E i \in 1 .. Len(a) :
             /\ a[i] < b[i]
             /\ \A j \in i + 1 .. Len(a) : a[j] = b[j]

\* the number of bits of b, and bit i of b (bit 0 is the lowest)
BitLen(b) ==
    IF b = << >> THEN 0
    ELSE DigitBits * (Len(b) - 1)
         + CHOOSE k \in 1 .. DigitBits :
               2 ^ (k - 1) <= b[Len(b)] /\ b[Len(b)] < 2 ^ k

Bit(b, i) == (b[i \div DigitBits + 1] \div 2 ^ (i % DigitBits)) % 2

\* b rounded to n significant bits
Round(b, n) ==
    IF BitLen(b) <= n THEN b
    ELSE LET p    == BitLen(b) - n
             q    == p \div DigitBits
             low  == [i \in 1 .. Len(b) |->
                         IF i <= q THEN 0
                         ELSE IF i = q + 1
                              THEN b[i] - (b[i] % 2 ^ (p % DigitBits))
                              ELSE b[i]]
             half == Bit(b, p - 1) = 1
             more == \E i \in 0 .. p - 2 : Bit(b, i) = 1
             up   == half /\ (more \/ Bit(b, p) = 1)
         IN  IF up THEN Add(low, Shl(<< 1 >>, p)) ELSE low

\* a number of either sign
Num(neg, mag) == [ neg |-> neg /\ mag # << >>, mag |-> mag ]

NumNeg(x) == Num(~ x.neg, x.mag)

NumAdd(x, y) ==
    IF x.neg = y.neg THEN Num(x.neg, Add(x.mag, y.mag))
    ELSE IF Less(x.mag, y.mag) THEN Num(y.neg, Sub(y.mag, x.mag))
    ELSE Num(x.neg, Sub(x.mag, y.mag))

NumRound(x, n) == Num(x.neg, Round(x.mag, n))

\* a + b and a - b of doubles, (float) of a double, a + b and a - b of
\* floats, n * a of an integer 0 <= n <= Base and a float
D64Add(x, y) == NumRound(NumAdd(x, y), 53)
D64Sub(x, y) == NumRound(NumAdd(x, NumNeg(y)), 53)
F32Of(x)     == NumRound(x, 24)
F32Add(x, y) == NumRound(NumAdd(x, y), 24)
F32Sub(x, y) == NumRound(NumAdd(x, NumNeg(y)), 24)
F32Mul(n, x) == NumRound(Num(x.neg, MulC(x.mag, n, 0)), 24)

\* x / 2^k of a double or float whose low k bits are clear
NumHalve(x, k) == Num(x.neg, Shr(x.mag, k))

\* the integer part and whether there is a fraction
NumInt(x) ==
    DigitsToInt(SubSeq(x.mag, FracBits \div DigitBits + 1, Len(x.mag)))

NumFrac(x) ==
    \E i \in 1 .. Min(FracBits \div DigitBits, Len(x.mag)) : x.mag[i] # 0

\* (int) ceilf(x), (int) floorf(x)
ceilf(x) ==
    IF x.neg THEN 0 - NumInt(x)
    ELSE NumInt(x) + (IF NumFrac(x) THEN 1 ELSE 0)

floorf(x) ==
    IF x.neg THEN 0 - (NumInt(x) + (IF NumFrac(x) THEN 1 ELSE 0))
    ELSE NumInt(x)

\* the double 0.2 is Mant02 * 2^-55, Mant02 = 107374182 * 2^26 + 26843546
Mant02 == Add(DigitsOf(26843546), Shl(DigitsOf(107374182), 26))

\* 0.2 * 2^e (e >= 55 - FracBits) and 0.5 as doubles
zoom_width_value(e) == Num(FALSE, Shl(Mant02, FracBits - 55 + e))
Half == Num(FALSE, Shl(<< 1 >>, FracBits - 1))

\* d_zoom_center after the pan steps: each one += or -= width / 8.0
RECURSIVE zoom_center_value(_)
zoom_center_value(steps) ==
    IF steps = << >> THEN Half
    ELSE LET c == zoom_center_value(SubSeq(steps, 1, Len(steps) - 1))
             p == steps[Len(steps)]
             d == NumHalve(zoom_width_value(p.e), 3)
         IN  IF p.dir = 1 THEN D64Add(c, d) ELSE D64Sub(c, d)

\* the literals of the pane-height ratio, in units of 2^-28
RatioUnit  == 2 ^ 28
ratio_init == 93952408     \* 0.35f
ratio_step == 13421773     \* 0.05f
ratio_max  == 214748368    \* 0.8f
ratio_min  == 53687092     \* 0.2f

\* 0.65f in units of 2^-23
main_fraction == 5452595
FractionUnit  == 2 ^ 23

\* (int)(width * 0.65f): int to float, float product, truncation
main_width(width) == F32Round(width * main_fraction) \div FractionUnit

\* (float) x of a double x
float_of(x) == << "float", x >>

\* k_db_per_div[]
k_db_per_div == << 1, 2, 5, 10, 20 >>

(***************************************************************************)
(* Setting categories (bits of d_settings_changed).  A bit mask is modelled *)
(* as the set of its bits, | as \cup, & as \cap, ~ as complement.           *)
(***************************************************************************)
SETTING_DIMENSIONS      == "dimensions"
SETTING_POWER_RANGE     == "power-range"
SETTING_FREQUENCY_RANGE == "frequency-range"
SETTING_FFT_WINDOW      == "fft-window"
SETTING_FFT_SIZE        == "fft-size"
SETTING_RENDER_OPTIONS  == "render-options"

SettingBits == { SETTING_DIMENSIONS, SETTING_POWER_RANGE,
                 SETTING_FREQUENCY_RANGE, SETTING_FFT_WINDOW,
                 SETTING_FFT_SIZE, SETTING_RENDER_OPTIONS }

(***************************************************************************)
(* Sample memory.  A buffer is a set of disjoint segments                  *)
(* [pos, len, val]: cell pos+k holds sample number val+k of the input      *)
(* stream, for k < len.  Cells outside all segments were never written.    *)
(***************************************************************************)
SegEnd(g) == g.pos + g.len

\* memcpy(&buf[p], &stream[v], n)
BufWrite(buf, p, n, v) ==
    IF n <= 0 THEN buf
    ELSE LET left  == { [pos |-> g.pos, len |-> p - g.pos, val |-> g.val] :
                          g \in { h \in buf : h.pos < p /\ SegEnd(h) > p } }
             right == { [pos |-> p + n, len |-> SegEnd(g) - (p + n),
                         val |-> g.val + (p + n - g.pos)] :
                          g \in { h \in buf : h.pos < p + n /\ SegEnd(h) > p + n } }
             keep  == { g \in buf : SegEnd(g) <= p \/ g.pos >= p + n }
         IN  keep \cup left \cup right \cup { [pos |-> p, len |-> n, val |-> v] }

\* cells p .. p+n-1 hold exactly the samples v .. v+n-1
BufHolds(buf, p, n, v) ==
    LET over == { g \in buf : g.pos < p + n /\ SegEnd(g) > p }
    IN  /\ \A g \in over : g.val - g.pos = v - p
        /\ \E g \in over : g.pos <= p
        /\ \A g \in over : SegEnd(g) < p + n =>
                             \E h \in over : h.pos = SegEnd(g)

(***************************************************************************)
(* SampleFifo (fifo.h): power-of-two ring, one producer, one consumer.     *)
(* The cursors run modulo 2*d_len and are masked to index the buffer.      *)
(***************************************************************************)
fifo(length) == [ d_len |-> length, d_rp |-> 0, d_wp |-> 0, d_buf |-> {} ]

fifo_index(f, c) == c % f.d_len

used(f) == (f.d_wp + 2 * f.d_len - f.d_rp) % (2 * f.d_len)

free(f) == (f.d_rp + 3 * f.d_len - f.d_wp) % (2 * f.d_len)

write_max_size(f) == Min(free(f), f.d_len - fifo_index(f, f.d_wp))

write_prepare(f, size, wait) ==
    IF write_max_size(f) < size THEN NULL ELSE fifo_index(f, f.d_wp)

write_commit(f, size) ==
    [f EXCEPT !.d_wp = (f.d_wp + size) % (2 * f.d_len)]

read_max_size(f) == Min(used(f), f.d_len - fifo_index(f, f.d_rp))

read_peek(f, size, wait) ==
    IF read_max_size(f) < size THEN NULL ELSE fifo_index(f, f.d_rp)

read_discard(f, size) ==
    [f EXCEPT !.d_rp = (f.d_rp + size) % (2 * f.d_len)]

(***************************************************************************)
(* State                                                                   *)
(***************************************************************************)
VARIABLES
    obj,              \* obj[s]: the members of sink s (base_sink_c_impl)
    s_boot_mutex,     \* static boot mutex: 0 when free, else the holding sink
    fosphor_fft_len,  \* FFT length active in the backend (process-wide)
    worker,           \* worker[s]: render thread of sink s (position, locals)
    sched,            \* sched[s]: scheduler thread inside work() of sink s
    ctl,              \* ctl[s][t]: control thread t calling setters of sink s
    lc,               \* lc[s]: the thread calling start() / stop() on sink s
    gh                \* gh[s]: history of sink s the properties speak about

vars == << obj, s_boot_mutex, fosphor_fft_len, worker, sched, ctl, lc, gh >>

NCtl == 2
Ctls == 1 .. NCtl

\* the GUI thread: key presses, mouse clicks, resizes, one after the other
Gui == 0
Threads == {Gui} \cup Ctls

\* window kinds a caller passes to set_fft_window
WinTypes == { "WIN_BLACKMAN_hARRIS", "WIN_HAMMING" }

\* the actions the control threads of the concurrent specifications issue
UiActions == { "DB_PER_DIV_UP", "DB_PER_DIV_DOWN", "ZOOM_TOGGLE",
               "FREEZE_TOGGLE" }

\* the actions issued while settings are applied: one per member the layout
\* and the power range are computed from
ApplyActions == { "DB_PER_DIV_UP", "REF_UP", "ZOOM_TOGGLE", "RATIO_UP" }

\* enum ui_action_t
ui_action_t == { "DB_PER_DIV_UP", "DB_PER_DIV_DOWN", "REF_UP", "REF_DOWN",
                 "ZOOM_TOGGLE", "ZOOM_WIDTH_UP", "ZOOM_WIDTH_DOWN",
                 "ZOOM_CENTER_UP", "ZOOM_CENTER_DOWN", "RATIO_UP",
                 "RATIO_DOWN", "FREEZE_TOGGLE" }

\* enum mouse_action_t
mouse_action_t == { "CLICK", "OTHER" }

\* render-option flags of a pane (fosphor_render.options)
FRO_LIVE        == "live"
FRO_MAX_HOLD    == "max-hold"
FRO_HISTO       == "histogram"
FRO_WATERFALL   == "waterfall"
FRO_LABEL_FREQ  == "frequency-labels"
FRO_LABEL_PWR   == "power-labels"
FRO_LABEL_TIME  == "time-labels"
FRO_CHANNELS    == "channel-overlay"
FRO_COLOR_SCALE == "color-scale"

\* a pane descriptor with its defaults (fosphor_render_defaults); only
\* channels[0] is ever touched by the sink
fosphor_render_defaults ==
    [ pos_x |-> 0, width |-> 1024, height |-> 1024,
      histo_wf_ratio |-> RatioUnit \div 2,
      options |-> { FRO_LIVE, FRO_MAX_HOLD, FRO_HISTO, FRO_WATERFALL,
                    FRO_LABEL_FREQ, FRO_LABEL_PWR, FRO_LABEL_TIME,
                    FRO_COLOR_SCALE },
      freq_center |-> "0.5f", freq_span |-> "1.0f",
      channels |-> << [ enabled |-> FALSE, center |-> "0.5f",
                        width |-> "0.2f" ] >> ]

\* members the constructor sets, and d_settings_changed, d_width and d_height,
\* which it leaves unset (garbage holds what they happen to contain).
\* d_zoom_width 0.2 * 2^e is held as e: doubling and halving are exact.
\* d_zoom_center is held as the pan steps applied to 0.5, each one double
\* addition of +-(width / 8.0) for the width exponent of that moment.
base_sink_c_impl(garbage) ==
    [ d_db_ref           |-> 0,
      d_db_per_div_idx   |-> 3,
      d_zoom_enabled     |-> FALSE,
      d_zoom_center      |-> << >>,
      d_zoom_width       |-> 0,
      d_ratio            |-> ratio_init,
      d_frozen           |-> FALSE,
      d_active           |-> FALSE,
      d_visible          |-> FALSE,
      d_fft_window       |-> "WIN_BLACKMAN_hARRIS",
      d_fft_size         |-> FFT_SIZE_DEFAULT,
      d_fifo             |-> fifo(FIFO_LENGTH),
      d_render_main      |-> fosphor_render_defaults,
      d_render_zoom      |-> [fosphor_render_defaults EXCEPT
                                !.options = @ \ {FRO_LABEL_PWR, FRO_LABEL_TIME}],
      d_fosphor          |-> NULL,
      d_width            |-> garbage.d_width,
      d_height           |-> garbage.d_height,
      d_settings_changed |-> garbage.d_settings_changed ]

\* what the unset members may hold: B for the dirty bits, W x H for the size
Garbage(B, W, H) ==
    { [ d_settings_changed |-> b, d_width |-> w, d_height |-> h ] :
          b \in B, w \in W, h \in H }

NoIteration ==
    [ tot0 |-> 0,          \* used() at the start of the iteration
      wp0 |-> 0,           \* write cursor at the start of the iteration
      single |-> FALSE,    \* the FIFO then held one push made into an empty FIFO
      batches |-> << >>,   \* sub-batches: length, and d_frozen as read
      procs |-> << >> ]    \* fosphor_process calls: pointer and length

WorkerIdle ==
    [ pc |-> "none", fft_len |-> 0, settings |-> {}, i |-> 0, tot_len |-> 0,
      len |-> 0,
      log |-> << >>,       \* resources acquired / released by this thread
      ops |-> {},          \* what this thread did since the last loop test
      wins |-> << >>,      \* its fosphor_set_fft_window calls since then
      failed |-> FALSE,    \* fosphor_init returned no handle
      it |-> NoIteration ] \* the current render iteration

SchedIdle ==
    [ pc |-> "idle", noutput_items |-> 0, l |-> 0, mw |-> 0, dst |-> NULL,
      ret |-> 0, wp0 |-> 0, calls |-> 0,
      in |-> 0 ]    \* input_items[0]: position in the input stream

CtlIdle ==
    [ pc |-> "idle", mark |-> {}, calls |-> 0,
      log |-> << >> ]   \* the calls of the GUI thread so far, with the
                        \* object before and after each

LcIdle == [ pc |-> "idle", calls |-> 0, stopped |-> FALSE ]

GhInit ==
    [ out_pos  |-> 0,        \* samples discarded by render()
      last_commit |-> [ len |-> 0, empty_before |-> FALSE ],
      marked   |-> {},       \* bits marked since the last drain
      drains   |-> 0,        \* 0: no drain yet, 1: one, 2: more
      drain_ret    |-> {},   \* value returned by the last drain
      drain_expect |-> {},   \* bits marked between the last two drains
      live     |-> 0,        \* worker threads created and not yet finished
      power    |-> [ db_ref |-> 0, db_per_div |-> 0 ],
                             \* the power range of the backend (fosphor.power);
                             \* zeros before the first fosphor_set_power_range
      gl       |-> [ done |-> FALSE, segs |-> << >>, spectrum |-> << >>,
                         grid |-> << >> ] ]
                             \* the channel sweep, the spectrum traces and
                             \* the grid of the last fosphor_gl_draw

\* the process after the construction of the sinks S, with d_settings_changed
\* holding one of the values G
Constructed(S, G) ==
    /\ obj \in [S -> { base_sink_c_impl(g) : g \in G }]
    /\ s_boot_mutex = 0
    /\ fosphor_fft_len = FFT_SIZE_DEFAULT
    /\ worker = [s \in S |-> WorkerIdle]
    /\ sched = [s \in S |-> SchedIdle]
    /\ ctl = [s \in S |-> [t \in Threads |-> CtlIdle]]
    /\ lc = [s \in S |-> LcIdle]
    /\ gh = [s \in S |-> GhInit]

\* one sink; d_settings_changed starts cleared or with every bit set
Init == Constructed({1}, Garbage({{}, SettingBits}, {200}, {100}))

\* one sink; d_settings_changed starts with any value
InitSettings == Constructed({1}, Garbage(SUBSET SettingBits, {200}, {100}))

\* every sink of the process
InitBoot == Constructed(Sinks, Garbage({{}, SettingBits}, {200}, {100}))

(***************************************************************************)
(* work(): the scheduler thread pushes noutput_items samples               *)
(***************************************************************************)
\* lines 463-470: l = min(noutput_items, write_max_size()); if (!l) return 0
work_enter(this, k, n) ==
    LET mw == write_max_size(this.d_fifo)
        l  == IF n > mw THEN mw ELSE n
    IN  [k EXCEPT !.noutput_items = n, !.mw = mw, !.l = l, !.dst = NULL,
                  !.wp0 = this.d_fifo.d_wp, !.calls = k.calls + 1,
                  !.ret = 0,
                  !.pc = IF l = 0 THEN "return" ELSE "prepare"]

\* lines 472-475: dst = write_prepare(l, true); if (!dst) return 0
work_prepare(this, k) ==
    LET dst == write_prepare(this.d_fifo, k.l, TRUE)
    IN  [k EXCEPT !.dst = dst, !.ret = 0,
                  !.pc = IF dst = NULL THEN "return" ELSE "copy"]

\* variant: the copy takes noutput_items samples instead of l
work_copy_all(this, k, in) ==
    [this EXCEPT !.d_fifo.d_buf =
        BufWrite(this.d_fifo.d_buf, k.dst, k.noutput_items, in)]

\* line 478: memcpy(dst, in, sizeof(gr_complex) * l)
work_copy(this, k, in) ==
    [this EXCEPT !.d_fifo.d_buf = BufWrite(this.d_fifo.d_buf, k.dst, k.l, in)]

\* line 479: write_commit(l)
work_commit(this, k) ==
    [this EXCEPT !.d_fifo = write_commit(this.d_fifo, k.l)]

\* variant: work() reports the requested count instead of the accepted one
work_return_requested(k) == [k EXCEPT !.ret = k.noutput_items, !.pc = "return"]

\* line 482: return l
work_return(k) == [k EXCEPT !.ret = k.l, !.pc = "return"]

\* the scheduler consumes as many input items as work() returned
work_consumed(k) ==
    [k EXCEPT !.pc = "idle", !.in = k.in + k.ret, !.noutput_items = 0,
              !.l = 0, !.mw = 0, !.dst = NULL, !.ret = 0, !.wp0 = 0]

Work_enter(s, n) ==
    /\ sched[s].pc = "idle"
    /\ sched[s].calls < MaxWork
    /\ sched' = [sched EXCEPT ![s] = work_enter(obj[s], sched[s], n)]
    /\ UNCHANGED << obj, s_boot_mutex, fosphor_fft_len, worker, ctl, lc, gh >>

Work_prepare(s) ==
    /\ sched[s].pc = "prepare"
    /\ sched' = [sched EXCEPT ![s] = work_prepare(obj[s], sched[s])]
    /\ UNCHANGED << obj, s_boot_mutex, fosphor_fft_len, worker, ctl, lc, gh >>

Work_copy(s) ==
    /\ sched[s].pc = "copy"
    /\ obj' = [obj EXCEPT ![s] = work_copy(obj[s], sched[s], sched[s].in)]
    /\ sched' = [sched EXCEPT ![s].pc = "commit"]
    /\ UNCHANGED << s_boot_mutex, fosphor_fft_len, worker, ctl, lc, gh >>

Work_commit(s) ==
    /\ sched[s].pc = "commit"
    /\ obj' = [obj EXCEPT ![s] = work_commit(obj[s], sched[s])]
    /\ sched' = [sched EXCEPT ![s] = work_return(sched[s])]
    /\ gh' = [gh EXCEPT ![s].last_commit =
                            [ len |-> sched[s].l,
                              empty_before |-> used(obj[s].d_fifo) = 0 ]]
    /\ UNCHANGED << s_boot_mutex, fosphor_fft_len, worker, ctl, lc >>

Work_return(s) ==
    /\ sched[s].pc = "return"
    /\ sched' = [sched EXCEPT ![s] = work_consumed(sched[s])]
    /\ UNCHANGED << obj, s_boot_mutex, fosphor_fft_len, worker, ctl, lc, gh >>

(***************************************************************************)
(* Settings register                                                       *)
(***************************************************************************)
\* lines 204-209
settings_mark_changed(this, setting) ==
    [this EXCEPT !.d_settings_changed = this.d_settings_changed \cup setting]

\* lines 211-218: the value returned, and the object afterwards
settings_get_and_reset_changed_v(this) == this.d_settings_changed

settings_get_and_reset_changed(this) ==
    [this EXCEPT !.d_settings_changed = {}]

\* lines 257-263: the FFT length of the backend after settings_apply
settings_apply_fft_len(this, settings, cur) ==
    IF SETTING_FFT_SIZE \in settings THEN this.d_fft_size ELSE cur

\* lines 251-255: the window built for d_fft_size and handed to the backend
\* while fft_len is the FFT length active there
settings_apply_window(this, settings, cur) ==
    IF SETTING_FFT_WINDOW \in settings
    THEN << [ win |-> this.d_fft_window, len |-> this.d_fft_size,
              fft_len |-> cur ] >>
    ELSE << >>

\* lines 257-263: the window rebuilt after fosphor_fft_len_set(d_fft_size)
settings_apply_window_rebuilt(this, settings) ==
    IF SETTING_FFT_SIZE \in settings
    THEN << [ win |-> this.d_fft_window, len |-> this.d_fft_size,
              fft_len |-> this.d_fft_size ] >>
    ELSE << >>

\* lines 251-263: the fosphor_set_fft_window calls of settings_apply
settings_apply_windows(this, settings, cur) ==
    settings_apply_window(this, settings, cur)
        \o settings_apply_window_rebuilt(this, settings)

\* lines 265-297: the layout of the two panes
settings_apply_layout(this) ==
    LET a    == main_width(this.d_width)
        main == IF this.d_zoom_enabled
                THEN [this.d_render_main EXCEPT
                        !.width = a,
                        !.options = (@ \cup {FRO_CHANNELS}) \ {FRO_COLOR_SCALE}]
                ELSE [this.d_render_main EXCEPT
                        !.width = this.d_width,
                        !.options = (@ \ {FRO_CHANNELS}) \cup {FRO_COLOR_SCALE}]
        zoom == IF this.d_zoom_enabled
                THEN [this.d_render_zoom EXCEPT
                        !.pos_x = a - 10,
                        !.width = this.d_width - a + 10]
                ELSE this.d_render_zoom
    IN  [this EXCEPT
           !.d_render_main =
               [main EXCEPT !.height = this.d_height,
                            !.histo_wf_ratio = this.d_ratio,
                            !.channels[1] =
                                [ enabled |-> this.d_zoom_enabled,
                                  center |-> float_of(this.d_zoom_center),
                                  width |-> float_of(this.d_zoom_width) ]],
           !.d_render_zoom =
               [zoom EXCEPT !.height = this.d_height,
                            !.histo_wf_ratio = this.d_ratio,
                            !.freq_center = float_of(this.d_zoom_center),
                            !.freq_span = float_of(this.d_zoom_width)]]

\* lines 220-298: what settings_apply changes in the object
settings_apply(this, settings) ==
    IF settings \cap {SETTING_DIMENSIONS, SETTING_RENDER_OPTIONS} # {}
    THEN settings_apply_layout(this) ELSE this

(***************************************************************************)
(* Control threads: UI actions, setters, callbacks.  A handler writes the  *)
(* members first and marks the categories afterwards, under the lock.      *)
(***************************************************************************)
\* variant: REF_DOWN indexes the table one entry too low
ref_down_step_off_by_one(this) ==
    k_db_per_div[IF this.d_db_per_div_idx = 0 THEN 1 ELSE this.d_db_per_div_idx]

\* line 336: the step of REF_DOWN
ref_down_step(this) == k_db_per_div[this.d_db_per_div_idx + 1]

\* line 332: the step of REF_UP
ref_up_step(this) == k_db_per_div[this.d_db_per_div_idx + 1]

\* variant: the zoom keys act whether zoomed or not
zoom_keys_effective_always(this) == TRUE

\* lines 344, 349, 354, 359: if (this->d_zoom_enabled)
zoom_keys_effective(this) == this.d_zoom_enabled

\* lines 317-376 (the switch)
execute_ui_action(this, action) ==
    CASE action = "DB_PER_DIV_UP" ->
           IF this.d_db_per_div_idx < 4
           THEN [this EXCEPT !.d_db_per_div_idx = @ + 1] ELSE this
      [] action = "DB_PER_DIV_DOWN" ->
           IF this.d_db_per_div_idx > 0
           THEN [this EXCEPT !.d_db_per_div_idx = @ - 1] ELSE this
      [] action = "REF_UP" ->
           [this EXCEPT !.d_db_ref = @ + ref_up_step(this)]
      [] action = "REF_DOWN" ->
           [this EXCEPT !.d_db_ref = @ - ref_down_step(this)]
      [] action = "ZOOM_TOGGLE" ->
           [this EXCEPT !.d_zoom_enabled = ~ @]
      [] action = "ZOOM_WIDTH_UP" ->
           IF zoom_keys_effective(this)
           THEN [this EXCEPT !.d_zoom_width = @ + 1] ELSE this
      [] action = "ZOOM_WIDTH_DOWN" ->
           IF zoom_keys_effective(this)
           THEN [this EXCEPT !.d_zoom_width = @ - 1] ELSE this
      [] action = "ZOOM_CENTER_UP" ->
           IF zoom_keys_effective(this)
           THEN [this EXCEPT !.d_zoom_center =
                                 Append(@, [ dir |-> 1, e |-> this.d_zoom_width ])]
           ELSE this
      [] action = "ZOOM_CENTER_DOWN" ->
           IF zoom_keys_effective(this)
           THEN [this EXCEPT !.d_zoom_center =
                                 Append(@, [ dir |-> -1, e |-> this.d_zoom_width ])]
           ELSE this
      [] action = "RATIO_UP" ->
           IF this.d_ratio < ratio_max
           THEN [this EXCEPT !.d_ratio = F32Round(@ + ratio_step)] ELSE this
      [] action = "RATIO_DOWN" ->
           IF this.d_ratio > ratio_min
           THEN [this EXCEPT !.d_ratio = F32Round(@ - ratio_step)] ELSE this
      [] action = "FREEZE_TOGGLE" ->
           [this EXCEPT !.d_frozen = ~ @]

\* variant: the handler marks the render options only
execute_ui_action_marks_options_only == {SETTING_RENDER_OPTIONS}

\* lines 378-381
execute_ui_action_marks == { SETTING_POWER_RANGE, SETTING_RENDER_OPTIONS }

\* variant: no test against the stored length
set_fft_size_accepts_supported(this, size) ==
    size \in {512, 1024, 2048, 4096, 8192, 16384, 32768}

\* lines 439-450
set_fft_size_accepts(this, size) ==
    /\ size # this.d_fft_size
    /\ size \in {512, 1024, 2048, 4096, 8192, 16384, 32768}

set_fft_size(this, size) ==
    IF set_fft_size_accepts(this, size)
    THEN [this EXCEPT !.d_fft_size = size] ELSE this

\* lines 309-314
\* lines 429-437: is the window kind stored and fft-window marked ?
set_fft_window_accepts(this, win) == win # this.d_fft_window

set_fft_window(this, win) ==
    IF set_fft_window_accepts(this, win)
    THEN [this EXCEPT !.d_fft_window = win] ELSE this

cb_visibility(this, visible) == [this EXCEPT !.d_visible = visible]

\* lines 304-305
cb_reshape(this, width, height) ==
    [this EXCEPT !.d_width = width, !.d_height = height]

\* variant: the second test is an "if", not an "else if", and the zoom pane is
\* tested whether zoomed or not
execute_mouse_action_both(this, action, in_main, in_zoom) ==
    IF action # "CLICK" THEN [ tests |-> << >>, events |-> << >> ]
    ELSE [ tests  |-> << "main", "zoom" >>,
           events |-> (IF in_main % 2 = 1 THEN << "main" >> ELSE << >>)
                      \o (IF in_zoom % 2 = 1 THEN << "zoom" >> ELSE << >>) ]

\* lines 384-405: the hit tests made and the frequency events published;
\* in_main and in_zoom are what fosphor_render_pos_inside returns for the
\* point in the main pane and in the zoom pane
execute_mouse_action(this, action, in_main, in_zoom) ==
    IF action # "CLICK" THEN [ tests |-> << >>, events |-> << >> ]
    ELSE LET zoomed == this.d_zoom_enabled
             iz     == IF zoomed THEN in_zoom ELSE 0
         IN  [ tests  |-> IF zoomed THEN << "main", "zoom" >> ELSE << "main" >>,
               events |-> IF in_main % 2 = 1 THEN << "main" >>
                          ELSE IF iz % 2 = 1 THEN << "zoom" >>
                          ELSE << >> ]

\* a thread enters a handler; the control threads make MaxCtl calls each, the
\* GUI thread MaxUi
CtlCall(s, t) ==
    /\ ctl[s][t].pc = "idle"
    /\ ctl[s][t].calls < (IF t = Gui THEN MaxUi ELSE MaxCtl)

\* the call log of the GUI thread after one more call
Logged(s, t, op, arg, post, out) ==
    LET q == Append(ctl[s][t].log, [ op |-> op, arg |-> arg, pre |-> obj[s],
                                     post |-> post, out |-> out,
                                     marked |-> {} ])
    IN  IF t # Gui THEN ctl[s][t].log
        ELSE IF Len(q) > MaxLog THEN Tail(q) ELSE q

Ctl_execute_ui_action(s, t, action) ==
    /\ CtlCall(s, t)
    /\ obj' = [obj EXCEPT ![s] = execute_ui_action(obj[s], action)]
    /\ ctl' = [ctl EXCEPT ![s][t] =
                 [ pc |-> "mark", mark |-> execute_ui_action_marks,
                   calls |-> @.calls + 1,
                   log |-> Logged(s, t, "execute_ui_action", action,
                                  obj'[s], << >>) ]]
    /\ UNCHANGED << s_boot_mutex, fosphor_fft_len, worker, sched, lc, gh >>

Ctl_set_fft_size(s, t, size) ==
    /\ CtlCall(s, t)
    /\ obj' = [obj EXCEPT ![s] = set_fft_size(obj[s], size)]
    /\ ctl' = [ctl EXCEPT ![s][t] =
                 [ pc |-> IF set_fft_size_accepts(obj[s], size)
                          THEN "mark" ELSE "idle",
                   mark |-> IF set_fft_size_accepts(obj[s], size)
                            THEN {SETTING_FFT_SIZE} ELSE @.mark,
                   calls |-> @.calls + 1,
                   log |-> Logged(s, t, "set_fft_size", size, obj'[s], << >>) ]]
    /\ UNCHANGED << s_boot_mutex, fosphor_fft_len, worker, sched, lc, gh >>

Ctl_set_fft_window(s, t, win) ==
    /\ CtlCall(s, t)
    /\ obj' = [obj EXCEPT ![s] = set_fft_window(obj[s], win)]
    /\ ctl' = [ctl EXCEPT ![s][t] =
                 [ pc |-> IF set_fft_window_accepts(obj[s], win)
                          THEN "mark" ELSE "idle",
                   mark |-> IF set_fft_window_accepts(obj[s], win)
                            THEN {SETTING_FFT_WINDOW} ELSE @.mark,
                   calls |-> @.calls + 1,
                   log |-> Logged(s, t, "set_fft_window", win, obj'[s], << >>) ]]
    /\ UNCHANGED << s_boot_mutex, fosphor_fft_len, worker, sched, lc, gh >>

Ctl_cb_visibility(s, t, visible) ==
    /\ CtlCall(s, t)
    /\ obj' = [obj EXCEPT ![s] = cb_visibility(obj[s], visible)]
    /\ ctl' = [ctl EXCEPT ![s][t].calls = @ + 1]
    /\ UNCHANGED << s_boot_mutex, fosphor_fft_len, worker, sched, lc, gh >>

Ctl_cb_reshape(s, t, width, height) ==
    /\ CtlCall(s, t)
    /\ obj' = [obj EXCEPT ![s] = cb_reshape(obj[s], width, height)]
    /\ ctl' = [ctl EXCEPT ![s][t] =
                 [ pc |-> "mark", mark |-> {SETTING_DIMENSIONS},
                   calls |-> @.calls + 1,
                   log |-> Logged(s, t, "cb_reshape", << width, height >>,
                                  obj'[s], << >>) ]]
    /\ UNCHANGED << s_boot_mutex, fosphor_fft_len, worker, sched, lc, gh >>

\* the handler publishes its events and returns; the object is not written
Ctl_execute_mouse_action(s, t, action, in_main, in_zoom) ==
    /\ CtlCall(s, t)
    /\ ctl' = [ctl EXCEPT ![s][t].calls = @ + 1,
                          ![s][t].log =
                              Logged(s, t, "execute_mouse_action",
                                     << action, in_main, in_zoom >>, obj[s],
                                     execute_mouse_action(obj[s], action,
                                                          in_main, in_zoom))]
    /\ UNCHANGED << obj, s_boot_mutex, fosphor_fft_len, worker, sched, lc, gh >>

\* the settings_mark_changed call that ends a handler
Ctl_mark(s, t) ==
    /\ ctl[s][t].pc = "mark"
    /\ obj' = [obj EXCEPT ![s] = settings_mark_changed(obj[s], ctl[s][t].mark)]
    /\ ctl' = [ctl EXCEPT ![s][t].pc = "idle",
                          ![s][t].log = IF t = Gui
                                        THEN [@ EXCEPT ![Len(@)].post = obj'[s],
                                                       ![Len(@)].marked =
                                                           ctl[s][t].mark]
                                        ELSE @]
    /\ gh' = [gh EXCEPT ![s].marked = @ \cup ctl[s][t].mark]
    /\ UNCHANGED << s_boot_mutex, fosphor_fft_len, worker, sched, lc >>

(***************************************************************************)
(* fosphor_gl_draw (fosphor/gl.c): the channel overlays of a pane.         *)
(* Channel centres and widths and the positions of the boundary points are *)
(* floats in units of 2^-28, shading opacities floats in units of 2^-30.   *)
(***************************************************************************)
PosUnit   == 2 ^ 28
AlphaUnit == 2 ^ 30

alpha_outside == AlphaUnit \div 2   \* 0.5f
alpha_inside  == 214748368          \* 0.2f

\* channel descriptors an application puts into a pane: centres 0.2f, 0.3f,
\* -0.125f and 1.0f, widths 0.0f, 0.2f and 0.5f (even counts: width / 2.0f
\* is exact)
ChanCenters == { 53687092, 80530640, 0 - 33554432, 268435456 }
ChanWidths  == { 0, 53687092, 134217728 }

ChanDisabled == [ enabled |-> FALSE, center |-> 134217728, width |-> 53687092 ]

Channels ==
    { ChanDisabled }
    \cup { [ enabled |-> TRUE, center |-> c, width |-> w ] :
               c \in ChanCenters, w \in ChanWidths }

\* variant: the upper clamp is missing
gl_clamp_low_only(f) == IF f > 0 THEN f ELSE 0

\* lines 685, 692: (f > 0.0f) ? (f < 1.0f ? f : 1.0f) : 0.0f
gl_clamp(f) == IF f > 0 THEN (IF f < PosUnit THEN f ELSE PosUnit) ELSE 0

\* lines 682-685 and 688-692: the two boundary points of a channel
gl_channel_start(ch) == gl_clamp(F32RoundS(ch.center - ch.width \div 2))
gl_channel_end(ch)   == gl_clamp(F32RoundS(ch.center + ch.width \div 2))

\* lines 675-694: the loop over channels[i .. ], skipping the disabled ones
RECURSIVE gl_points(_, _)
gl_points(channels, i) ==
    IF i > Len(channels) THEN << >>
    ELSE (IF channels[i].enabled
          THEN << [ dir |-> 1,  pos |-> gl_channel_start(channels[i]) ],
                  [ dir |-> -1, pos |-> gl_channel_end(channels[i]) ] >>
          ELSE << >>)
         \o gl_points(channels, i + 1)

\* lines 669-694: pt[0 .. n-1]
gl_channel_points(render) ==
    << [ dir |-> -1, pos |-> 0 ], [ dir |-> 1, pos |-> PosUnit ] >>
    \o gl_points(render.channels, 1)

\* lines 714-718: the index of the first smallest position from j on, mi
\* being the best so far
RECURSIVE gl_find_min(_, _, _)
gl_find_min(pt, j, mi) ==
    IF j > Len(pt) THEN mi
    ELSE gl_find_min(pt, j + 1, IF pt[j].pos < pt[mi].pos THEN j ELSE mi)

\* lines 720-723
gl_swap(pt, i, mi) == [pt EXCEPT ![i] = pt[mi], ![mi] = pt[i]]

\* lines 728-731: glColor4f for the running level l # 0
gl_shade(l) ==
    IF l < 0 THEN [ color |-> "black", alpha |-> alpha_outside ]
    ELSE [ color |-> "white",
           alpha |-> F32Round(alpha_inside - F32Div(alpha_inside, 1 + l)) ]

\* lines 733, 742: the vertical ranges the quad of a sub-interval is drawn in
gl_panes(render) ==
    (IF FRO_WATERFALL \in render.options THEN {"_y_histo"} ELSE {})
    \cup (IF render.options \cap {FRO_LIVE, FRO_MAX_HOLD, FRO_HISTO} # {}
          THEN {"_y_wf"} ELSE {})

\* lines 710-753: sort and draw at the same time, from pt[i] on (pt is
\* 1-based here) with the running level l; segs are the sub-intervals
\* between distinct neighbours met so far, shaded or (l = 0) left alone
RECURSIVE gl_sweep(_, _, _, _, _)
gl_sweep(render, pt, i, l, segs) ==
    IF i > Len(pt) THEN segs
    ELSE LET p   == gl_swap(pt, i, gl_find_min(pt, i + 1, i))
             seg == [ x0 |-> p[i - 1].pos, x1 |-> p[i].pos, l |-> l,
                      drawn |-> l # 0,
                      color |-> IF l # 0 THEN gl_shade(l).color ELSE "none",
                      alpha |-> IF l # 0 THEN gl_shade(l).alpha ELSE 0,
                      panes |-> IF l # 0 THEN gl_panes(render) ELSE {} ]
         IN  gl_sweep(render, p, i + 1, l + p[i].dir,
                      IF p[i - 1].pos # p[i].pos THEN Append(segs, seg)
                      ELSE segs)

\* lines 658-760
gl_draw_channels(render) ==
    LET pt == gl_channel_points(render)
    IN  IF FRO_CHANNELS \in render.options /\ Len(pt) > 2
        THEN gl_sweep(render, pt, 2, pt[1].dir, << >>)
        ELSE << >>

\* the render thread of an application draws the main pane once
Gl_draw(s) ==
    /\ ~ gh[s].gl.done
    /\ gh' = [gh EXCEPT ![s].gl =
                 [@ EXCEPT !.done = TRUE,
                           !.segs = gl_draw_channels(obj[s].d_render_main)]]
    /\ UNCHANGED << obj, s_boot_mutex, fosphor_fft_len, worker, sched, ctl,
                    lc >>

(***************************************************************************)
(* fosphor_gl_draw (fosphor/gl.c): the spectrum traces of the zoom pane,   *)
(* whose window settings_apply takes from d_zoom_center and d_zoom_width.  *)
(***************************************************************************)
\* lines 292-293: (float)d_zoom_center and (float)d_zoom_width, as the
\* descriptor holds them
freq_center_value(render) == F32Of(zoom_center_value(render.freq_center[2]))
freq_span_value(render)   == F32Of(zoom_width_value(render.freq_span[2]))

\* variant: both end-points are clamped on both sides
gl_spectrum_clamp_both(fft_len, idx) ==
    LET c(i) == IF i < 1 THEN 1 ELSE IF i >= fft_len THEN fft_len - 1 ELSE i
    IN  << c(idx[1]), c(idx[2]) >>

\* lines 479-482
gl_spectrum_clamp(fft_len, idx) ==
    << IF idx[1] < 1 THEN 1 ELSE idx[1],
       IF idx[2] >= fft_len THEN fft_len - 1 ELSE idx[2] >>

\* lines 471-546: the end-points, the vertex count and the glDrawArrays
\* calls (first vertex, count) for a backend of fft_len bins
gl_draw_spectrum(fft_len, render) ==
    IF render.options \cap {FRO_LIVE, FRO_MAX_HOLD} = {} THEN << >>
    ELSE LET center == freq_center_value(render)
             half   == NumHalve(freq_span_value(render), 1)
             idx    == gl_spectrum_clamp(fft_len,
                          << ceilf(F32Mul(fft_len, F32Sub(center, half))),
                             floorf(F32Mul(fft_len, F32Add(center, half))) >>)
             len    == idx[2] - idx[1] + 1
         IN  << [ fft_len |-> fft_len, idx |-> idx, len |-> len,
                  center |-> center, half |-> half,
                  arrays |->
                      (IF FRO_LIVE \in render.options
                       THEN {[ first |-> idx[1], count |-> len ]} ELSE {})
                      \cup
                      (IF FRO_MAX_HOLD \in render.options
                       THEN {[ first |-> idx[1] + fft_len, count |-> len ]}
                       ELSE {}) ] >>

\* the zoom pane is laid out from the object as it is and drawn by a
\* backend of fft_len bins
Gl_draw_zoom(s, fft_len) ==
    /\ obj[s].d_zoom_enabled
    /\ gh' = [gh EXCEPT ![s].gl.spectrum =
                 gl_draw_spectrum(fft_len,
                                  settings_apply_layout(obj[s]).d_render_zoom)]
    /\ UNCHANGED << obj, s_boot_mutex, fosphor_fft_len, worker, sched, ctl,
                    lc >>

(***************************************************************************)
(* fosphor_gl_draw (fosphor/gl.c): the grid of a pane                      *)
(***************************************************************************)
\* lines 234-239: what settings_apply hands to fosphor_set_power_range
power_range(this) ==
    [ db_ref     |-> this.d_db_ref,
      db_per_div |-> k_db_per_div[this.d_db_per_div_idx + 1] ]

\* lines 234-239: the power range of the backend after settings_apply
settings_apply_power(this, settings, cur) ==
    IF SETTING_POWER_RANGE \in settings THEN power_range(this) ELSE cur

\* line 580: for (i=0; i<11; i++)
grid_lines == 11

\* variant: the labels count up from the reference
gl_power_label_up(power, i) == power.db_ref - i * power.db_per_div

\* line 605
gl_power_label(power, i) == power.db_ref - (10 - i) * power.db_per_div

\* lines 577-656: the horizontal and the vertical lines, each with its index
\* i and its label, if one is printed
gl_draw_grid(power, render, freq_n_div) ==
    IF render.options \cap {FRO_LIVE, FRO_MAX_HOLD, FRO_HISTO} = {}
    THEN << >>
    ELSE << [ power |-> power, freq_n_div |-> freq_n_div,
              options |-> render.options,
              h |-> [k \in 1 .. grid_lines |->
                        [ i |-> k - 1,
                          label |-> IF FRO_LABEL_PWR \in render.options
                                    THEN << gl_power_label(power, k - 1) >>
                                    ELSE << >> ]],
              v |-> [k \in 1 .. freq_n_div + 1 |->
                        [ i |-> k - 1,
                          label |-> IF FRO_LABEL_FREQ \in render.options
                                    THEN << k - 1 - freq_n_div \div 2 >>
                                    ELSE << >> ]] ] >>

\* a pane of the sink (zoom: the zoom pane) with freq_n_div divisions and
\* the options off cleared is drawn by a backend holding the power range of
\* the object as it is
Gl_draw_grid(s, zoom, freq_n_div, off) ==
    /\ LET render == IF zoom THEN obj[s].d_render_zoom
                     ELSE obj[s].d_render_main
       IN  gh' = [gh EXCEPT ![s].gl.grid =
                     gl_draw_grid(power_range(obj[s]),
                                  [render EXCEPT !.options = @ \ off],
                                  freq_n_div)]
    /\ UNCHANGED << obj, s_boot_mutex, fosphor_fft_len, worker, sched, ctl,
                    lc >>

(***************************************************************************)
(* worker(): the render thread                                             *)
(***************************************************************************)
\* lines 79-91: d_fosphor = NULL, glctx_init(), glewInit() when built with it
worker_glctx_init(this) == [this EXCEPT !.d_fosphor = NULL]

\* line 99: d_fosphor = fosphor_init(); h is the handle or NULL
worker_fosphor_init(this, h) == [this EXCEPT !.d_fosphor = h]

\* variant: no "goto error" when fosphor_init fails
worker_after_init_no_goto(this) == "w_apply0"

\* lines 100-105: where the thread continues after fosphor_init
worker_after_init(this) ==
    IF this.d_fosphor = NULL THEN "w_error" ELSE "w_apply0"

\* variant: the mutex is unlocked by hand after the check, "goto error" skips it
boot_guard_leave_skipped(m, this) == IF this.d_fosphor = NULL THEN m ELSE 0

\* lines 97, 102-104: the scoped lock is left on both ways out of the block
boot_guard_leave(m, this) == 0

\* line 109: while (this->d_active)
worker_loop(this) == IF this.d_active THEN "r_enter" ELSE "w_error"

\* variant: the cleanup releases without testing d_fosphor
worker_cleanup_always(this) == << "fosphor_release" >>

\* lines 117-118: what the cleanup releases
worker_cleanup(this) ==
    IF this.d_fosphor # NULL THEN << "fosphor_release" >> ELSE << >>

Worker_glctx_init(s, glew_ok) ==
    /\ worker[s].pc = "w_init"
    /\ obj' = [obj EXCEPT ![s] = worker_glctx_init(obj[s])]
    /\ worker' = [worker EXCEPT ![s].pc = IF glew_ok THEN "w_boot" ELSE "w_error",
                                ![s].log = Append(@, "glctx_init")]
    /\ UNCHANGED << s_boot_mutex, fosphor_fft_len, sched, ctl, lc, gh >>

Worker_boot_lock(s) ==
    /\ worker[s].pc = "w_boot"
    /\ s_boot_mutex = 0
    /\ s_boot_mutex' = s
    /\ worker' = [worker EXCEPT ![s].pc = "w_fosphor_init"]
    /\ UNCHANGED << obj, fosphor_fft_len, sched, ctl, lc, gh >>

Worker_fosphor_init(s, h) ==
    /\ worker[s].pc = "w_fosphor_init"
    /\ obj' = [obj EXCEPT ![s] = worker_fosphor_init(obj[s], h)]
    /\ s_boot_mutex' = boot_guard_leave(s_boot_mutex, obj'[s])
    /\ worker' = [worker EXCEPT ![s].pc = worker_after_init(obj'[s]),
                                ![s].failed = (h = NULL),
                                ![s].log = IF h = NULL THEN @
                                           ELSE Append(@, "fosphor_init")]
    /\ UNCHANGED << fosphor_fft_len, sched, ctl, lc, gh >>

\* line 106: settings_apply(~SETTING_DIMENSIONS)
Worker_apply0(s) ==
    /\ worker[s].pc = "w_apply0"
    /\ obj' = [obj EXCEPT ![s] = settings_apply(obj[s],
                                      SettingBits \ {SETTING_DIMENSIONS})]
    /\ fosphor_fft_len' = settings_apply_fft_len(obj[s],
                              SettingBits \ {SETTING_DIMENSIONS}, fosphor_fft_len)
    /\ gh' = [gh EXCEPT ![s].power =
                 settings_apply_power(obj[s],
                     SettingBits \ {SETTING_DIMENSIONS}, @)]
    /\ worker' = [worker EXCEPT
          ![s].pc = "w_loop",
          ![s].ops = @ \cup {"settings_apply"},
          ![s].wins = @ \o settings_apply_windows(obj[s],
                              SettingBits \ {SETTING_DIMENSIONS},
                              fosphor_fft_len)]
    /\ UNCHANGED << s_boot_mutex, sched, ctl, lc >>

Worker_loop(s) ==
    /\ worker[s].pc = "w_loop"
    /\ worker' = [worker EXCEPT ![s].pc = worker_loop(obj[s]),
                                ![s].ops = {}, ![s].wins = << >>]
    /\ UNCHANGED << obj, s_boot_mutex, fosphor_fft_len, sched, ctl, lc, gh >>

Worker_cleanup(s) ==
    /\ worker[s].pc = "w_error"
    /\ worker' = [worker EXCEPT ![s].pc = "w_fini",
                                ![s].log = @ \o worker_cleanup(obj[s])]
    /\ UNCHANGED << obj, s_boot_mutex, fosphor_fft_len, sched, ctl, lc, gh >>

\* line 121: glctx_fini(); the thread ends
Worker_glctx_fini(s) ==
    /\ worker[s].pc = "w_fini"
    /\ worker' = [worker EXCEPT ![s].pc = "w_exit",
                                ![s].log = Append(@, "glctx_fini")]
    /\ gh' = [gh EXCEPT ![s].live = @ - 1]
    /\ UNCHANGED << obj, s_boot_mutex, fosphor_fft_len, sched, ctl, lc >>

(***************************************************************************)
(* render(): one iteration of the main loop                                *)
(***************************************************************************)
\* lines 152-154, first half: len = tot_len; is len > read_max_size() ?
render_needs_clamp(this, w) == w.tot_len > read_max_size(this.d_fifo)

\* variant: the length is not cut down to the contiguous run
render_clamp_none(this, w) == w.tot_len

\* line 154: len = read_max_size()
render_clamp(this, w) == read_max_size(this.d_fifo)

\* variant: the length is rounded up to the batch multiple
render_align_up(len, fft_len) ==
    LET a == AndNot(len + (batch_mult * fft_len) - 1, (batch_mult * fft_len) - 1)
    IN  IF a > batch_max * fft_len THEN batch_max * fft_len ELSE a

\* lines 156-159: round down to the batch multiple, cap at the maximum batch
render_align(len, fft_len) ==
    LET a == AndNot(len, (batch_mult * fft_len) - 1)
    IN  IF a > batch_max * fft_len THEN batch_max * fft_len ELSE a

\* lines 168-171: the fosphor_process calls of one sub-batch
render_process(this, w) ==
    IF ~ this.d_frozen
    THEN << [ data |-> read_peek(this.d_fifo, w.len, FALSE), len |-> w.len ] >>
    ELSE << >>

\* variant: the discard takes what is left of tot_len instead of len
render_discard_rest(this, w) ==
    [this EXCEPT !.d_fifo = read_discard(this.d_fifo, w.tot_len)]

\* variant: the discard sits inside the "if not frozen" block
render_discard_unless_frozen(this, w) ==
    IF this.d_frozen THEN this
    ELSE [this EXCEPT !.d_fifo = read_discard(this.d_fifo, w.len)]

\* line 174: read_discard(len)
render_discard(this, w) ==
    [this EXCEPT !.d_fifo = read_discard(this.d_fifo, w.len)]

\* lines 181-194: what the gate draws
render_draw(this) ==
    IF this.d_visible
    THEN {"clear", "draw_main", "swap"}
         \cup (IF this.d_zoom_enabled THEN {"draw_zoom"} ELSE {})
    ELSE {}

\* line 133
Render_enter(s) ==
    /\ worker[s].pc = "r_enter"
    /\ worker' = [worker EXCEPT ![s].pc = "r_drain",
                                ![s].fft_len = obj[s].d_fft_size]
    /\ UNCHANGED << obj, s_boot_mutex, fosphor_fft_len, sched, ctl, lc, gh >>

\* line 141, the argument
Render_drain(s) ==
    /\ worker[s].pc = "r_drain"
    /\ obj' = [obj EXCEPT ![s] = settings_get_and_reset_changed(obj[s])]
    /\ worker' = [worker EXCEPT ![s].pc = "r_apply",
                                ![s].settings =
                                    settings_get_and_reset_changed_v(obj[s])]
    /\ gh' = [gh EXCEPT ![s].marked = {},
                        ![s].drains = Min(@ + 1, 2),
                        ![s].drain_ret = settings_get_and_reset_changed_v(obj[s]),
                        ![s].drain_expect = gh[s].marked]
    /\ UNCHANGED << s_boot_mutex, fosphor_fft_len, sched, ctl, lc >>

\* line 141, the call
Render_apply(s) ==
    /\ worker[s].pc = "r_apply"
    /\ obj' = [obj EXCEPT ![s] = settings_apply(obj[s], worker[s].settings)]
    /\ fosphor_fft_len' = settings_apply_fft_len(obj[s], worker[s].settings,
                                                 fosphor_fft_len)
    /\ gh' = [gh EXCEPT ![s].power =
                 settings_apply_power(obj[s], worker[s].settings, @)]
    /\ worker' = [worker EXCEPT
          ![s].pc = "r_used",
          ![s].ops = @ \cup {"settings_apply"},
          ![s].wins = @ \o settings_apply_windows(obj[s], worker[s].settings,
                                                  fosphor_fft_len)]
    /\ UNCHANGED << s_boot_mutex, sched, ctl, lc >>

\* line 141, the call, in two steps.  Lines 221-263: the power range and
\* the FFT length are handed to the backend
Render_apply_power(s) ==
    /\ worker[s].pc = "r_apply"
    /\ fosphor_fft_len' = settings_apply_fft_len(obj[s], worker[s].settings,
                                                 fosphor_fft_len)
    /\ gh' = [gh EXCEPT ![s].power =
                 settings_apply_power(obj[s], worker[s].settings, @)]
    /\ worker' = [worker EXCEPT
          ![s].pc = "r_layout",
          ![s].wins = @ \o settings_apply_windows(obj[s], worker[s].settings,
                                                  fosphor_fft_len)]
    /\ UNCHANGED << obj, s_boot_mutex, sched, ctl, lc >>

\* lines 265-297: the layout is recomputed
Render_apply_layout(s) ==
    /\ worker[s].pc = "r_layout"
    /\ obj' = [obj EXCEPT ![s] = settings_apply(obj[s], worker[s].settings)]
    /\ worker' = [worker EXCEPT ![s].pc = "r_used",
                                ![s].ops = @ \cup {"settings_apply"}]
    /\ UNCHANGED << s_boot_mutex, fosphor_fft_len, sched, ctl, lc, gh >>

\* line 144
Render_used(s) ==
    /\ worker[s].pc = "r_used"
    /\ worker' = [worker EXCEPT
          ![s].pc = "r_iter",
          ![s].tot_len = used(obj[s].d_fifo),
          ![s].i = 0,
          ![s].ops = @ \cup {"fifo_read"},
          ![s].it = [ tot0 |-> used(obj[s].d_fifo),
                      wp0 |-> obj[s].d_fifo.d_wp,
                      single |-> /\ gh[s].last_commit.empty_before
                                 /\ gh[s].last_commit.len = used(obj[s].d_fifo),
                      batches |-> << >>,
                      procs |-> << >> ]]
    /\ UNCHANGED << obj, s_boot_mutex, fosphor_fft_len, sched, ctl, lc, gh >>

\* lines 146, 152-153
Render_iter(s) ==
    /\ worker[s].pc = "r_iter"
    /\ worker' = [worker EXCEPT
          ![s].len = worker[s].tot_len,
          ![s].pc = IF worker[s].i < max_iter /\ worker[s].tot_len # 0
                    THEN IF render_needs_clamp(obj[s], worker[s])
                         THEN "r_clamp" ELSE "r_align"
                    ELSE "r_draw"]
    /\ UNCHANGED << obj, s_boot_mutex, fosphor_fft_len, sched, ctl, lc, gh >>

\* line 154
Render_clamp(s) ==
    /\ worker[s].pc = "r_clamp"
    /\ worker' = [worker EXCEPT ![s].len = render_clamp(obj[s], worker[s]),
                                ![s].pc = "r_align"]
    /\ UNCHANGED << obj, s_boot_mutex, fosphor_fft_len, sched, ctl, lc, gh >>

\* lines 156-165
Render_align(s) ==
    /\ worker[s].pc = "r_align"
    /\ LET len == render_align(worker[s].len, worker[s].fft_len)
       IN  worker' = [worker EXCEPT ![s].len = len,
                                    ![s].tot_len = @ - len,
                                    ![s].pc = IF len = 0 THEN "r_draw"
                                              ELSE "r_process"]
    /\ UNCHANGED << obj, s_boot_mutex, fosphor_fft_len, sched, ctl, lc, gh >>

\* lines 167-171
Render_process(s) ==
    /\ worker[s].pc = "r_process"
    /\ worker' = [worker EXCEPT
          ![s].pc = "r_discard",
          ![s].ops = IF render_process(obj[s], worker[s]) = << >> THEN @
                     ELSE @ \cup {"process"},
          ![s].it.procs = @ \o render_process(obj[s], worker[s]),
          ![s].it.batches = Append(@, [ len |-> worker[s].len,
                                        frozen |-> obj[s].d_frozen ])]
    /\ UNCHANGED << obj, s_boot_mutex, fosphor_fft_len, sched, ctl, lc, gh >>

\* line 174, and the i++ of line 146
Render_discard(s) ==
    /\ worker[s].pc = "r_discard"
    /\ obj' = [obj EXCEPT ![s] = render_discard(obj[s], worker[s])]
    /\ worker' = [worker EXCEPT ![s].pc = "r_iter", ![s].i = @ + 1]
    /\ gh' = [gh EXCEPT ![s].out_pos = @ + worker[s].len]
    /\ UNCHANGED << s_boot_mutex, fosphor_fft_len, sched, ctl, lc >>

\* lines 177-195
Render_draw(s) ==
    /\ worker[s].pc = "r_draw"
    /\ worker' = [worker EXCEPT ![s].pc = "r_sleep",
                                ![s].ops = @ \cup render_draw(obj[s]),
                                ![s].it = NoIteration]
    /\ UNCHANGED << obj, s_boot_mutex, fosphor_fft_len, sched, ctl, lc, gh >>

\* lines 197-200, then glctx_poll() of line 112
Render_sleep(s) ==
    /\ worker[s].pc = "r_sleep"
    /\ worker' = [worker EXCEPT ![s].pc = "w_loop",
                                ![s].fft_len = 0, ![s].settings = {},
                                ![s].i = 0, ![s].tot_len = 0, ![s].len = 0,
                                ![s].ops = IF obj[s].d_visible THEN @
                                           ELSE @ \cup {"sleep"}]
    /\ UNCHANGED << obj, s_boot_mutex, fosphor_fft_len, sched, ctl, lc, gh >>

(***************************************************************************)
(* start() / stop()                                                        *)
(***************************************************************************)
\* lines 488-491: does start() create a worker ?
start_spawns(this) == ~ this.d_active

start(this) == IF start_spawns(this) THEN [this EXCEPT !.d_active = TRUE]
               ELSE this

\* lines 498-501: does stop() clear the flag and join ?
stop_joins(this) == this.d_active

stop(this) == IF stop_joins(this) THEN [this EXCEPT !.d_active = FALSE]
              ELSE this

\* variant: stop() does not wait for the thread
join_returns_at_once(w) == TRUE

\* line 500: join() returns once the thread has ended
join_returns(w) == w.pc = "w_exit"

Start(s) ==
    /\ lc[s].pc = "idle"
    /\ lc[s].calls < MaxStart
    /\ obj' = [obj EXCEPT ![s] = start(obj[s])]
    /\ lc' = [lc EXCEPT ![s].calls = @ + 1, ![s].stopped = FALSE]
    /\ IF start_spawns(obj[s])
       THEN /\ worker' = [worker EXCEPT ![s] = [WorkerIdle EXCEPT !.pc = "w_init"]]
            /\ gh' = [gh EXCEPT ![s].live = @ + 1]
       ELSE UNCHANGED << worker, gh >>
    /\ UNCHANGED << s_boot_mutex, fosphor_fft_len, sched, ctl >>

Stop(s) ==
    /\ lc[s].pc = "idle"
    /\ obj' = [obj EXCEPT ![s] = stop(obj[s])]
    /\ lc' = [lc EXCEPT ![s].pc = IF stop_joins(obj[s]) THEN "join" ELSE "idle",
                        ![s].stopped = FALSE]
    /\ UNCHANGED << s_boot_mutex, fosphor_fft_len, worker, sched, ctl, gh >>

Stop_join(s) ==
    /\ lc[s].pc = "join"
    /\ join_returns(worker[s])
    /\ lc' = [lc EXCEPT ![s].pc = "idle", ![s].stopped = TRUE]
    /\ UNCHANGED << obj, s_boot_mutex, fosphor_fft_len, worker, sched, ctl, gh >>

(***************************************************************************)
(* Specifications                                                          *)
(***************************************************************************)
WorkStep(s) == Work_prepare(s) \/ Work_copy(s) \/ Work_commit(s)
                 \/ Work_return(s)

SchedNext(s) ==
    \/ \E n \in Requests : Work_enter(s, n)
    \/ Work_prepare(s)
    \/ Work_copy(s)
    \/ Work_commit(s)
    \/ Work_return(s)

BootNext(s) ==
    \/ \E ok \in BOOLEAN : Worker_glctx_init(s, ok)
    \/ Worker_boot_lock(s)
    \/ \E h \in {NULL, s} : Worker_fosphor_init(s, h)
    \/ Worker_apply0(s)
    \/ Worker_loop(s)
    \/ Worker_cleanup(s)
    \/ Worker_glctx_fini(s)

FrameNext(s) ==
    \/ Render_enter(s)
    \/ Render_drain(s)
    \/ Render_apply(s)
    \/ Render_used(s)
    \/ Render_iter(s)
    \/ Render_draw(s)
    \/ Render_sleep(s)

BatchNext(s) ==
    \/ Render_clamp(s)
    \/ Render_align(s)
    \/ Render_process(s)
    \/ Render_discard(s)

CtlNext(s, t) ==
    \/ \E a \in UiActions : Ctl_execute_ui_action(s, t, a)
    \/ \E z \in FftSizes : Ctl_set_fft_size(s, t, z)
    \/ \E v \in BOOLEAN : Ctl_cb_visibility(s, t, v)
    \/ Ctl_mark(s, t)

LifeNext(s) ==
    \/ Start(s)
    \/ Stop(s)
    \/ Stop_join(s)

\* one sink, every thread, one control thread
Next ==
    \E s \in {1} :
        \/ SchedNext(s)
        \/ LifeNext(s)
        \/ BootNext(s)
        \/ FrameNext(s)
        \/ BatchNext(s)
        \/ CtlNext(s, 1)

Spec == Init /\ [][Next]_vars

\* one sink: scheduler, render thread and the freeze switch
NextFifo ==
    \E s \in {1} :
        \/ SchedNext(s)
        \/ Start(s)
        \/ BootNext(s)
        \/ FrameNext(s)
        \/ BatchNext(s)
        \/ Ctl_execute_ui_action(s, 1, "FREEZE_TOGGLE")
        \/ Ctl_mark(s, 1)

SpecFifo == Init /\ [][NextFifo]_vars

\* one sink: scheduler, render thread and a control thread setting the FFT
\* length
NextBatch ==
    \E s \in {1} :
        \/ SchedNext(s)
        \/ Start(s)
        \/ BootNext(s)
        \/ FrameNext(s)
        \/ BatchNext(s)
        \/ \E z \in FftSizes : Ctl_set_fft_size(s, 1, z)
        \/ Ctl_mark(s, 1)

SpecBatch == Init /\ [][NextBatch]_vars

\* one sink: control threads and the render thread, no samples
NextSettings ==
    \E s \in {1} :
        \/ Start(s)
        \/ BootNext(s)
        \/ FrameNext(s)
        \/ \E t \in Ctls : CtlNext(s, t)

SpecSettings == InitSettings /\ [][NextSettings]_vars

\* one sink: start / stop and the render thread, no samples
NextLife ==
    \E s \in {1} :
        \/ LifeNext(s)
        \/ BootNext(s)
        \/ FrameNext(s)
        \/ \E v \in BOOLEAN : Ctl_cb_visibility(s, 1, v)

SpecLife == Init /\ [][NextLife]_vars

\* one sink, not started: the GUI thread issues UI actions
NextUi ==
    \E s \in {1} :
        \/ \E a \in ui_action_t : Ctl_execute_ui_action(s, Gui, a)
        \/ Ctl_mark(s, Gui)

SpecUi == Init /\ [][NextUi]_vars

\* one sink, not started: the GUI thread toggles the zoom, sets the FFT
\* length and clicks
NextGui ==
    \E s \in {1} :
        \/ Ctl_execute_ui_action(s, Gui, "ZOOM_TOGGLE")
        \/ \E z \in FftSizes : Ctl_set_fft_size(s, Gui, z)
        \/ \E a \in mouse_action_t :
               \E m, z \in (IF a = "CLICK" THEN PosInside ELSE {0}) :
                   Ctl_execute_mouse_action(s, Gui, a, m, z)
        \/ Ctl_mark(s, Gui)

SpecGui == Init /\ [][NextGui]_vars

\* one sink of any size: one control thread resizes and another toggles the
\* zoom while the render thread runs
InitLayout == Constructed({1}, Garbage({{}, SettingBits}, {333}, Heights))

NextLayout ==
    \E s \in {1} :
        \/ Start(s)
        \/ BootNext(s)
        \/ FrameNext(s)
        \/ \E w \in Widths, h \in Heights : Ctl_cb_reshape(s, 1, w, h)
        \/ Ctl_execute_ui_action(s, 2, "ZOOM_TOGGLE")
        \/ \E t \in Ctls : Ctl_mark(s, t)

SpecLayout == InitLayout /\ [][NextLayout]_vars

\* one pane holding any array of channel descriptors, the overlay switched
\* on or off, drawn once
InitChannels ==
    /\ obj \in [{1} ->
           { [base_sink_c_impl(g) EXCEPT
                !.d_render_main.channels = ch,
                !.d_render_main.options = @ \cup o] :
                 g \in Garbage({{}}, {200}, {100}),
                 ch \in [1 .. MaxChannels -> Channels],
                 o \in {{}, {FRO_CHANNELS}} }]
    /\ s_boot_mutex = 0
    /\ fosphor_fft_len = FFT_SIZE_DEFAULT
    /\ worker = [s \in {1} |-> WorkerIdle]
    /\ sched = [s \in {1} |-> SchedIdle]
    /\ ctl = [s \in {1} |-> [t \in Threads |-> CtlIdle]]
    /\ lc = [s \in {1} |-> LcIdle]
    /\ gh = [s \in {1} |-> GhInit]

NextChannels == \E s \in {1} : Gl_draw(s)

SpecChannels == InitChannels /\ [][NextChannels]_vars

\* one sink, zoomed by ZOOM_TOGGLE and widened by ZOOM_WIDTH_UP presses: the
\* GUI thread pans, the zoom pane is drawn
InitZoom ==
    /\ obj \in [{1} ->
           { settings_apply_layout(
                 [base_sink_c_impl(g) EXCEPT !.d_zoom_enabled = TRUE,
                                             !.d_zoom_width = e]) :
                 g \in Garbage({{}}, {200}, {100}), e \in ZoomExps }]
    /\ s_boot_mutex = 0
    /\ fosphor_fft_len = FFT_SIZE_DEFAULT
    /\ worker = [s \in {1} |-> WorkerIdle]
    /\ sched = [s \in {1} |-> SchedIdle]
    /\ ctl = [s \in {1} |-> [t \in Threads |-> CtlIdle]]
    /\ lc = [s \in {1} |-> LcIdle]
    /\ gh = [s \in {1} |-> GhInit]

NextZoom ==
    \E s \in {1} :
        \/ \E a \in {"ZOOM_CENTER_UP", "ZOOM_CENTER_DOWN"} :
               Ctl_execute_ui_action(s, Gui, a)
        \/ Ctl_mark(s, Gui)
        \/ \E n \in BinCounts : Gl_draw_zoom(s, n)

SpecZoom == InitZoom /\ [][NextZoom]_vars

\* one sink: the GUI thread changes the power range, a pane is drawn
NextGrid ==
    \E s \in {1} :
        \/ \E a \in {"REF_UP", "REF_DOWN", "DB_PER_DIV_UP", "DB_PER_DIV_DOWN"} :
               Ctl_execute_ui_action(s, Gui, a)
        \/ Ctl_mark(s, Gui)
        \/ \E zoom \in BOOLEAN, n \in FreqDivs, off \in ClearedOptions :
               Gl_draw_grid(s, zoom, n, off)

SpecGrid == Init /\ [][NextGrid]_vars

\* every sink of the process is started; each thread keeps running
WorkerNext(s) == BootNext(s) \/ FrameNext(s)

NextBoot ==
    \E s \in Sinks :
        \/ Start(s)
        \/ BootNext(s)
        \/ FrameNext(s)

SpecBoot ==
    /\ InitBoot
    /\ [][NextBoot]_vars
    /\ \A s \in Sinks : WF_vars(WorkerNext(s))

\* one sink: the control threads 1 and 2 resize and issue UI actions while the
\* render thread, once created, keeps running; settings_apply is taken in
\* two steps
ApplyCtls == {1, 2}

ApplyNext(s) ==
    \/ BootNext(s)
    \/ Render_enter(s)
    \/ Render_drain(s)
    \/ Render_apply_power(s)
    \/ Render_apply_layout(s)
    \/ Render_used(s)
    \/ Render_iter(s)
    \/ Render_draw(s)
    \/ Render_sleep(s)

NextApply ==
    \E s \in {1} :
        \/ Start(s)
        \/ ApplyNext(s)
        \/ \E t \in ApplyCtls :
               \/ \E w \in Widths, h \in Heights : Ctl_cb_reshape(s, t, w, h)
               \/ \E a \in ApplyActions : Ctl_execute_ui_action(s, t, a)
               \/ Ctl_mark(s, t)

SpecApply ==
    /\ Init
    /\ [][NextApply]_vars
    /\ WF_vars(ApplyNext(1))

\* one sink: the control threads set the window kind and the FFT length
\* while the render thread runs
NextWindow ==
    \E s \in {1} :
        \/ Start(s)
        \/ BootNext(s)
        \/ FrameNext(s)
        \/ \E t \in Ctls :
               \/ \E w \in WinTypes : Ctl_set_fft_window(s, t, w)
               \/ \E z \in FftSizes : Ctl_set_fft_size(s, t, z)
               \/ Ctl_mark(s, t)

SpecWindow == Init /\ [][NextWindow]_vars

\* one sink: the scheduler pushes, one control thread sets the FFT length;
\* the render thread, once created, keeps running
RenderNext(s) == BootNext(s) \/ FrameNext(s) \/ BatchNext(s)

NextStall ==
    \E s \in {1} :
        \/ \E n \in StallRequests : Work_enter(s, n)
        \/ WorkStep(s)
        \/ Start(s)
        \/ RenderNext(s)
        \/ \E z \in StallFftSizes : Ctl_set_fft_size(s, 1, z)
        \/ Ctl_mark(s, 1)

SpecStall ==
    /\ Init
    /\ [][NextStall]_vars
    /\ WF_vars(RenderNext(1))

(***************************************************************************)
(* Properties of the sample FIFO (SpecFifo)                                *)
(***************************************************************************)
TheSinks == DOMAIN obj

\* samples the scheduler has committed so far
Committed(s) ==
    sched[s].in + (IF sched[s].pc = "return" THEN sched[s].ret ELSE 0)

\* the unread cells hold the next used() samples of the stream, in order
UnreadIntact(s) ==
    LET f  == obj[s].d_fifo
        r  == fifo_index(f, f.d_rp)
        n1 == Min(used(f), f.d_len - r)
        n2 == used(f) - n1
    IN  /\ n1 > 0 => BufHolds(f.d_buf, r, n1, gh[s].out_pos)
        /\ n2 > 0 => BufHolds(f.d_buf, 0, n2, gh[s].out_pos + n1)

\* C1: in every reachable state used() + free() == capacity, and the view
\* render() asks read_peek for is there and is no longer than used().
C1_FifoAccounting ==
    \A s \in TheSinks :
        LET f == obj[s].d_fifo
        IN  /\ used(f) + free(f) = f.d_len
            /\ worker[s].pc = "r_process" =>
                   /\ worker[s].len <= used(f)
                   /\ read_peek(f, worker[s].len, FALSE) # NULL

\* render() is about to peek into a full FIFO whose data wraps around
C1_Witness ==
    \E s \in TheSinks :
        /\ worker[s].pc = "r_process"
        /\ used(obj[s].d_fifo) = obj[s].d_fifo.d_len
        /\ fifo_index(obj[s].d_fifo, obj[s].d_fifo.d_rp) # 0

\* C2: every sub-batch render() peeks at and discards is exactly the next
\* len samples of the stream after those it took before, and all of them
\* were committed by work(): nothing duplicated, skipped or reordered.
C2_FifoOrder ==
    \A s \in TheSinks :
        worker[s].pc \in {"r_process", "r_discard"} =>
            /\ BufHolds(obj[s].d_fifo.d_buf,
                        fifo_index(obj[s].d_fifo, obj[s].d_fifo.d_rp),
                        worker[s].len, gh[s].out_pos)
            /\ gh[s].out_pos + worker[s].len <= Committed(s)

\* render() discards samples that were written after the write cursor wrapped
C2_Witness ==
    \E s \in TheSinks :
        /\ worker[s].pc = "r_discard"
        /\ gh[s].out_pos >= FIFO_LENGTH
        /\ fifo_index(obj[s].d_fifo, obj[s].d_fifo.d_rp) # 0

\* C3: what work() copies and commits, min(noutput_items, write_max_size()),
\* is positive and never more than free() at that moment, and the unread
\* samples are never overwritten.
C3_NoLap ==
    \A s \in TheSinks :
        /\ sched[s].pc \in {"copy", "commit"} =>
               /\ sched[s].l = Min(sched[s].noutput_items, sched[s].mw)
               /\ sched[s].l > 0
               /\ sched[s].l <= free(obj[s].d_fifo)
        /\ UnreadIntact(s)

\* a push cut down to the free run that ends at the read cursor
C3_Witness ==
    \E s \in TheSinks :
        /\ sched[s].pc = "commit"
        /\ sched[s].l < sched[s].noutput_items
        /\ sched[s].l = free(obj[s].d_fifo)
        /\ fifo_index(obj[s].d_fifo, obj[s].d_fifo.d_wp)
             < fifo_index(obj[s].d_fifo, obj[s].d_fifo.d_rp)

OneAlignedChunk(s) ==
    /\ worker[s].pc = "r_draw"
    /\ worker[s].fft_len = FFT_SIZE_DEFAULT
    /\ worker[s].it.single
    /\ worker[s].it.tot0 > 0
    /\ worker[s].it.tot0 % (batch_mult * FFT_SIZE_DEFAULT) = 0
    /\ worker[s].it.tot0 <= batch_max * FFT_SIZE_DEFAULT
    /\ obj[s].d_fifo.d_wp = worker[s].it.wp0

\* C6: such an iteration handles the chunk as one sub-batch of its length,
\* makes exactly one fosphor_process call of that length unless frozen, none
\* when frozen, and leaves used() == 0 either way.
C6_AlignedChunkOneCall ==
    \A s \in TheSinks :
        OneAlignedChunk(s) =>
            LET it == worker[s].it
            IN  /\ used(obj[s].d_fifo) = 0
                /\ Len(it.batches) = 1
                /\ it.batches[1].len = it.tot0
                /\ it.procs = IF it.batches[1].frozen THEN << >>
                              ELSE << [ data |-> fifo_index(obj[s].d_fifo,
                                            obj[s].d_fifo.d_rp + 2 * obj[s].d_fifo.d_len
                                              - it.tot0),
                                        len |-> it.tot0 ] >>

\* a frozen sink has drained one aligned chunk without processing it
C6_Witness ==
    \E s \in TheSinks :
        /\ OneAlignedChunk(s)
        /\ Len(worker[s].it.batches) = 1
        /\ worker[s].it.batches[1].frozen
        /\ worker[s].it.procs = << >>
        /\ gh[s].out_pos > 0

(***************************************************************************)
(* Properties of the settings register (SpecSettings)                      *)
(***************************************************************************)
\* C5: every settings_get_and_reset_changed() returns exactly the union of
\* the bits marked by the settings_mark_changed() calls completed since the
\* previous one (since construction for the first): no mark lost, no extra
\* bit, and every mark returned once.
C5_DrainExact ==
    \A s \in TheSinks :
        gh[s].drains > 0 => gh[s].drain_ret = gh[s].drain_expect

(***************************************************************************)
(* Properties of the worker life cycle (SpecLife)                          *)
(***************************************************************************)
Last(q) == q[Len(q)]

IsPrefix(p, q) == Len(p) <= Len(q) /\ SubSeq(q, 1, Len(p)) = p

\* C7: once stop() has returned on an active sink (and until the next
\* start()), the flag is clear, the worker has left its loop and has finished
\* glctx_fini(), and the render thread can take no step at all; there is
\* never more than one worker thread of a sink.
C7_StopSynchronous ==
    \A s \in TheSinks :
        /\ gh[s].live <= 1
        /\ lc[s].stopped =>
               /\ ~ obj[s].d_active
               /\ worker[s].pc = "w_exit"
               /\ Last(worker[s].log) = "glctx_fini"
               /\ gh[s].live = 0
               /\ ~ ENABLED (BootNext(s) \/ FrameNext(s) \/ BatchNext(s))

\* stop() has returned after a second start() on the running sink
C7_Witness ==
    \E s \in TheSinks :
        /\ lc[s].stopped
        /\ lc[s].calls = 2
        /\ "fosphor_release" \in { worker[s].log[i] : i \in DOMAIN worker[s].log }
        /\ gh[s].live = 0

\* C8: a worker whose fosphor_init() returned no handle is in the teardown or
\* has ended, holds no backend, and has applied no settings and run no part
\* of a render iteration (no FIFO read, process, draw, swap or sleep).
C8_InitFailureStraightToTeardown ==
    \A s \in TheSinks :
        worker[s].failed =>
            /\ worker[s].pc \in {"w_error", "w_fini", "w_exit"}
            /\ worker[s].ops = {}
            /\ obj[s].d_fosphor = NULL

\* a worker has ended after a failed fosphor_init()
C8_Witness ==
    \E s \in TheSinks :
        /\ worker[s].failed
        /\ worker[s].pc = "w_exit"
        /\ worker[s].log = << "glctx_init", "glctx_fini" >>

ReleaseOrders ==
    { << "glctx_init", "fosphor_init", "fosphor_release", "glctx_fini" >>,
      << "glctx_init", "glctx_fini" >> }

\* C9: what a worker acquires and releases is, at any time, the beginning of
\* surface, backend, backend release, surface teardown or of surface, surface
\* teardown, and a worker that has ended has done all of one of the two: the
\* backend is released once if and only if acquired, before the one
\* glctx_fini().
C9_ReverseRelease ==
    \A s \in TheSinks :
        /\ \E o \in ReleaseOrders : IsPrefix(worker[s].log, o)
        /\ worker[s].pc = "w_exit" => worker[s].log \in ReleaseOrders
        /\ worker[s].pc \in {"w_error", "w_fini", "w_exit"} =>
               (obj[s].d_fosphor # NULL
                  <=> "fosphor_init" \in { worker[s].log[i] :
                                               i \in DOMAIN worker[s].log })

\* a worker that left the loop because stop() cleared d_active has ended
C9_Witness ==
    \E s \in TheSinks :
        /\ worker[s].pc = "w_exit"
        /\ ~ worker[s].failed
        /\ ~ obj[s].d_active
        /\ worker[s].log = << "glctx_init", "fosphor_init",
                              "fosphor_release", "glctx_fini" >>

(***************************************************************************)
(* Properties of the render gate (SpecLife)                                *)
(***************************************************************************)
\* a render iteration has just ended: the thread is back at the loop test
IterationDone(s) == worker[s].pc = "w_loop" /\ "fifo_read" \in worker[s].ops

\* C11: every iteration that has ended either cleared, drew and swapped the
\* frame and did not sleep, or drew and swapped nothing and slept: exactly
\* one of the two, whatever cb_visibility() calls happened meanwhile.
C11_GateExactlyOne ==
    \A s \in TheSinks :
        IterationDone(s) =>
            \/ /\ {"clear", "draw_main", "swap"} \subseteq worker[s].ops
               /\ "sleep" \notin worker[s].ops
            \/ /\ worker[s].ops \cap {"clear", "draw_main", "draw_zoom", "swap"} = {}
               /\ "sleep" \in worker[s].ops

(***************************************************************************)
(* Properties of the setters and the action interpreter, on the calls of   *)
(* the GUI thread (SpecGui, SpecUi)                                        *)
(***************************************************************************)
\* the calls of the GUI thread of sink s that have returned, oldest first
Returned(s) ==
    LET q == ctl[s][Gui].log
    IN  IF ctl[s][Gui].pc = "idle" THEN q ELSE SubSeq(q, 1, Len(q) - 1)

UiState(this) ==
    [ d_db_per_div_idx |-> this.d_db_per_div_idx, d_db_ref |-> this.d_db_ref,
      d_zoom_enabled |-> this.d_zoom_enabled,
      d_zoom_center |-> this.d_zoom_center, d_zoom_width |-> this.d_zoom_width,
      d_ratio |-> this.d_ratio, d_frozen |-> this.d_frozen ]

SupportedFftSizes == {512, 1024, 2048, 4096, 8192, 16384, 32768}

\* C12: a set_fft_size(s) call stores s and marks fft-size dirty if and only
\* if s is supported and differs from the stored length; otherwise it marks
\* nothing and leaves the whole object, dirty set included, as it was.  Of
\* two calls in succession with the same length only the first one marks.
C12_SetFftSizeOnce ==
    \A s \in TheSinks :
        LET q == Returned(s)
        IN  /\ \A i \in DOMAIN q :
                  q[i].op = "set_fft_size" =>
                      IF q[i].arg \in SupportedFftSizes
                         /\ q[i].arg # q[i].pre.d_fft_size
                      THEN /\ q[i].post.d_fft_size = q[i].arg
                           /\ q[i].marked = {SETTING_FFT_SIZE}
                           /\ q[i].post.d_settings_changed =
                                q[i].pre.d_settings_changed \cup {SETTING_FFT_SIZE}
                      ELSE /\ q[i].post = q[i].pre
                           /\ q[i].marked = {}
            /\ \A i \in DOMAIN q :
                  /\ i > 1
                  /\ q[i].op = "set_fft_size" /\ q[i - 1].op = "set_fft_size"
                  /\ q[i].arg = q[i - 1].arg
                  => q[i].marked = {}

\* set_fft_size(4096) twice in succession: the first call marked, the second
\* did not
C12_Witness ==
    \E s \in TheSinks :
        LET q == Returned(s)
        IN  /\ Len(q) = 2
            /\ q[1].op = "set_fft_size" /\ q[1].arg = 4096
            /\ q[2].op = "set_fft_size" /\ q[2].arg = 4096
            /\ q[1].marked = {SETTING_FFT_SIZE}
            /\ q[2].marked = {}
            /\ obj[s].d_fft_size = 4096

\* C18: a mouse action publishes at most one frequency event: for a CLICK,
\* one of the main pane when the point is inside its plotted region (bit 0 of
\* the hit test), else one of the zoom pane when zoom is enabled and the
\* point is inside its plotted region, else none.  The zoom pane is hit-tested
\* only while zoom is enabled; any other action tests and publishes nothing.
C18_OneFrequencyEvent ==
    \A s \in TheSinks :
        \A i \in DOMAIN Returned(s) :
            LET e == Returned(s)[i]
                action == e.arg[1]
                hit_main == e.arg[2] % 2 = 1
                hit_zoom == e.arg[3] % 2 = 1
            IN  e.op = "execute_mouse_action" =>
                    /\ Len(e.out.events) <= 1
                    /\ e.out.events =
                         IF action = "CLICK" /\ hit_main THEN << "main" >>
                         ELSE IF action = "CLICK" /\ e.pre.d_zoom_enabled
                                 /\ hit_zoom THEN << "zoom" >>
                         ELSE << >>
                    /\ ~ e.pre.d_zoom_enabled =>
                           \A k \in DOMAIN e.out.tests : e.out.tests[k] # "zoom"
                    /\ action # "CLICK" => e.out.tests = << >>
                    /\ e.post = e.pre

\* after ZOOM_TOGGLE, a click outside the main pane's plotted region and
\* inside the zoom pane's published the zoom pane's frequency
C18_Witness ==
    \E s \in TheSinks :
        LET q == Returned(s)
        IN  /\ Len(q) = 2
            /\ q[1].op = "execute_ui_action" /\ q[1].arg = "ZOOM_TOGGLE"
            /\ ~ q[1].pre.d_zoom_enabled
            /\ q[2].op = "execute_mouse_action" /\ q[2].arg = << "CLICK", 2, 1 >>
            /\ q[2].out.tests = << "main", "zoom" >>
            /\ q[2].out.events = << "zoom" >>

\* C14: the pane-height ratio stays within [0.2, 0.8], bounds included.
C14_RatioBounded ==
    \A s \in TheSinks :
        /\ 5 * obj[s].d_ratio >= RatioUnit
        /\ 5 * obj[s].d_ratio <= 4 * RatioUnit

\* the dB/div table, by index
DbPerDiv(idx) ==
    CASE idx = 0 -> 1 [] idx = 1 -> 2 [] idx = 2 -> 5 [] idx = 3 -> 10
      [] idx = 4 -> 20

\* C15: REF_UP raises and REF_DOWN lowers the reference level by the dB/div
\* value of the current index, and REF_UP followed by REF_DOWN, or REF_DOWN
\* followed by REF_UP, with no call in between, gives back the reference
\* level there was before the two.
C15_RefUpDownRestores ==
    \A s \in TheSinks :
        LET q == Returned(s)
        IN  /\ \A i \in DOMAIN q :
                  q[i].op = "execute_ui_action" =>
                      /\ q[i].arg = "REF_UP" =>
                           q[i].post.d_db_ref = q[i].pre.d_db_ref
                                + DbPerDiv(q[i].pre.d_db_per_div_idx)
                      /\ q[i].arg = "REF_DOWN" =>
                           q[i].post.d_db_ref = q[i].pre.d_db_ref
                                - DbPerDiv(q[i].pre.d_db_per_div_idx)
            /\ \A i \in DOMAIN q :
                  /\ i > 1
                  /\ q[i].op = "execute_ui_action"
                  /\ q[i - 1].op = "execute_ui_action"
                  /\ << q[i - 1].arg, q[i].arg >> \in
                         { << "REF_UP", "REF_DOWN" >>, << "REF_DOWN", "REF_UP" >> }
                  => q[i].post.d_db_ref = q[i - 1].pre.d_db_ref

\* REF_UP then REF_DOWN at the highest dB/div index, from a reference level
\* of -10 set at another index
C15_Witness ==
    \E s \in TheSinks :
        LET q == Returned(s)
        IN  /\ Len(q) = 2
            /\ q[1].arg = "REF_UP" /\ q[2].arg = "REF_DOWN"
            /\ q[1].pre.d_db_per_div_idx = 4
            /\ q[1].pre.d_db_ref = -10
            /\ q[1].post.d_db_ref = 10
            /\ obj[s].d_db_ref = -10

ZoomKeys == { "ZOOM_WIDTH_UP", "ZOOM_WIDTH_DOWN", "ZOOM_CENTER_UP",
              "ZOOM_CENTER_DOWN" }

\* C16: ZOOM_WIDTH_UP, ZOOM_WIDTH_DOWN, ZOOM_CENTER_UP and ZOOM_CENTER_DOWN
\* issued while zoom is disabled leave dB/div index, reference level, zoom
\* enabled, center and width, ratio and frozen flag as they were.
C16_ZoomKeysNoOpWhenDisabled ==
    \A s \in TheSinks :
        \A i \in DOMAIN Returned(s) :
            LET e == Returned(s)[i]
            IN  /\ e.op = "execute_ui_action"
                /\ e.arg \in ZoomKeys
                /\ ~ e.pre.d_zoom_enabled
                => UiState(e.post) = UiState(e.pre)

\* ZOOM_CENTER_UP had no effect on a sink whose zoom was switched on, changed
\* and switched off again before
C16_Witness ==
    \E s \in TheSinks :
        LET q == Returned(s)
        IN  /\ Len(q) = 2
            /\ q[1].arg = "ZOOM_TOGGLE" /\ q[1].pre.d_zoom_enabled
            /\ q[1].pre.d_zoom_width # 0
            /\ q[2].arg = "ZOOM_CENTER_UP"
            /\ UiState(q[2].post) = UiState(q[2].pre)
            /\ ~ obj[s].d_zoom_enabled

(***************************************************************************)
(* Properties of the layout (SpecLayout)                                   *)
(***************************************************************************)
\* the render thread of sink s is about to recompute the layout
LayoutRecompute(s) ==
    \/ worker[s].pc = "w_apply0"
    \/ /\ worker[s].pc = "r_apply"
       /\ worker[s].settings \cap {SETTING_DIMENSIONS, SETTING_RENDER_OPTIONS}
            # {}

\* C13: a layout recompute with zoom enabled and total width W leaves the
\* main pane floor(0.65 * W) wide and the zoom pane W - floor(0.65 * W) + 10
\* wide, starting 10 px left of the main pane's right edge; both panes get
\* the total height and the same ratio.
C13_ZoomLayout ==
    [][ \A s \in TheSinks :
          /\ LayoutRecompute(s)
          /\ worker'[s].pc # worker[s].pc
          /\ obj[s].d_zoom_enabled
          => LET W == obj[s].d_width
                 a == (65 * W) \div 100
                 main == obj'[s].d_render_main
                 zoom == obj'[s].d_render_zoom
             IN  /\ main.width = a
                 /\ zoom.width = W - a + 10
                 /\ zoom.pos_x = main.pos_x + main.width - 10
                 /\ main.height = obj[s].d_height
                 /\ zoom.height = obj[s].d_height
                 /\ main.histo_wf_ratio = zoom.histo_wf_ratio ]_vars

(***************************************************************************)
(* Properties of the sub-batches (SpecBatch)                               *)
(***************************************************************************)
RECURSIVE SumLen(_)
SumLen(q) == IF q = << >> THEN 0 ELSE Head(q).len + SumLen(Tail(q))

\* C19: a render iteration makes at most 8 sub-batches; each one is a
\* positive multiple of 16 * fft_len, at most 1024 * fft_len and at most the
\* contiguous readable run; together they are never more than used() was at
\* the start of the iteration, and when the loop is over at least the rest of
\* that amount is still in the FIFO.
C19_SubBatches ==
    \A s \in TheSinks :
        LET w  == worker[s]
            it == w.it
            f  == obj[s].d_fifo
        IN  /\ Len(it.batches) <= 8
            /\ \A k \in DOMAIN it.batches :
                   /\ it.batches[k].len > 0
                   /\ it.batches[k].len % (16 * w.fft_len) = 0
                   /\ it.batches[k].len <= 1024 * w.fft_len
            /\ SumLen(it.batches) <= it.tot0
            /\ w.pc \in {"r_process", "r_discard"} =>
                   /\ w.len > 0
                   /\ w.len % (16 * w.fft_len) = 0
                   /\ w.len <= 1024 * w.fft_len
                   /\ w.len <= read_max_size(f)
                   /\ w.len <= used(f)
            /\ w.pc = "r_draw" => used(f) >= it.tot0 - SumLen(it.batches)

\* an iteration took two sub-batches, the second cut at the end of the
\* buffer, and left 1000 samples queued
C19_Witness ==
    \E s \in TheSinks :
        /\ worker[s].pc = "r_draw"
        /\ Len(worker[s].it.batches) = 2
        /\ worker[s].it.batches[2].len < worker[s].it.batches[1].len
        /\ worker[s].it.tot0 - SumLen(worker[s].it.batches) = 1000
        /\ used(obj[s].d_fifo) >= 1000

\* C20: a sub-batch handed to fosphor_process is a multiple of 16 times the
\* FFT length the backend has active at that moment.
C20_BatchAlignedToBackend ==
    \A s \in TheSinks :
        worker[s].pc = "r_process" /\ ~ obj[s].d_frozen =>
            worker[s].len % (16 * fosphor_fft_len) = 0

(***************************************************************************)
(* Properties of the channel overlays (SpecChannels)                       *)
(***************************************************************************)
\* the pane of sink s was drawn with the overlay on and a channel enabled
Swept(s) ==
    /\ gh[s].gl.done
    /\ FRO_CHANNELS \in obj[s].d_render_main.options
    /\ \E i \in 1 .. MaxChannels : obj[s].d_render_main.channels[i].enabled

\* the number of enabled channels whose clamped interval contains [x0, x1)
ChannelDepth(render, x0, x1) ==
    Cardinality({ i \in 1 .. Len(render.channels) :
                    /\ render.channels[i].enabled
                    /\ gl_channel_start(render.channels[i]) <= x0
                    /\ x1 <= gl_channel_end(render.channels[i]) })

\* the sub-intervals of the sweep tile [0, 1] from left to right, and the
\* level of each is one less than its coverage depth
SweepPartition(s) ==
    LET segs == gh[s].gl.segs
    IN  /\ Len(segs) > 0
        /\ segs[1].x0 = 0
        /\ segs[Len(segs)].x1 = PosUnit
        /\ \A k \in 1 .. Len(segs) : segs[k].x0 < segs[k].x1
        /\ \A k \in 1 .. Len(segs) - 1 : segs[k].x1 = segs[k + 1].x0
        /\ \A k \in 1 .. Len(segs) :
               segs[k].l + 1 =
                   ChannelDepth(obj[s].d_render_main, segs[k].x0, segs[k].x1)

\* the opacity a sub-interval is shaded with (none: 0)
SegOpacity(g) == IF g.drawn THEN g.alpha ELSE 0

\* C17: the sort-and-sweep partitions [0,1] into sub-intervals whose coverage
\* depth is the number of clamped channel intervals containing them, and the
\* shading opacity of a sub-interval is non-decreasing in its depth.
C17_SweepOpacityMonotone ==
    \A s \in TheSinks :
        Swept(s) =>
            /\ SweepPartition(s)
            /\ \A a, b \in 1 .. Len(gh[s].gl.segs) :
                   gh[s].gl.segs[a].l <= gh[s].gl.segs[b].l =>
                       SegOpacity(gh[s].gl.segs[a])
                           <= SegOpacity(gh[s].gl.segs[b])

\* C17 (amended): the same partition; inside the channels (depth >= 1) the
\* opacity is non-decreasing in the depth, white, none at depth 1; outside
\* all channels (depth 0) the sub-interval is darkened, black at 0.5.
C17_SweepOpacityInside ==
    \A s \in TheSinks :
        Swept(s) =>
            /\ SweepPartition(s)
            /\ \A a, b \in 1 .. Len(gh[s].gl.segs) :
                   /\ 0 <= gh[s].gl.segs[a].l
                   /\ gh[s].gl.segs[a].l <= gh[s].gl.segs[b].l
                   => SegOpacity(gh[s].gl.segs[a])
                          <= SegOpacity(gh[s].gl.segs[b])
            /\ \A a \in 1 .. Len(gh[s].gl.segs) :
                   LET g == gh[s].gl.segs[a]
                   IN  /\ g.l < 0 => /\ g.drawn
                                     /\ g.color = "black"
                                     /\ g.alpha = alpha_outside
                       /\ g.l = 0 => ~ g.drawn
                       /\ g.l > 0 => /\ g.drawn
                                     /\ g.color = "white"
                                     /\ g.alpha > 0
                                     /\ g.alpha < alpha_inside

\* channels [0.2, 0.4] and [0.1, 0.3], in this order, were swept
C17_Witness ==
    \E s \in TheSinks :
        LET ch   == obj[s].d_render_main.channels
            segs == gh[s].gl.segs
        IN  /\ Swept(s)
            /\ ch[1] = [ enabled |-> TRUE, center |-> 80530640,
                         width |-> 53687092 ]
            /\ ch[2] = [ enabled |-> TRUE, center |-> 53687092,
                         width |-> 53687092 ]
            /\ \A i \in 3 .. MaxChannels : ~ ch[i].enabled
            /\ Len(segs) = 5
            /\ << segs[1].l, segs[2].l, segs[3].l, segs[4].l, segs[5].l >>
                   = << -1, 0, 1, 0, -1 >>
            /\ << segs[1].x1, segs[2].x1, segs[3].x1, segs[4].x1 >>
                   = << 26843546, 53687096, 80530640, 107374184 >>

(***************************************************************************)
(* Properties of a presented frame (SpecSettings)                          *)
(***************************************************************************)
\* the render thread of sink s has just presented a frame
Presented(s) == worker[s].pc = "r_sleep" /\ "swap" \in worker[s].ops

\* the main pane's descriptor is in the layout settings_apply computes for
\* zoom enabled (zoom) or disabled
MainLayout(this, zoom) ==
    IF zoom
    THEN /\ this.d_render_main.width = main_width(this.d_width)
         /\ FRO_CHANNELS \in this.d_render_main.options
         /\ FRO_COLOR_SCALE \notin this.d_render_main.options
    ELSE /\ this.d_render_main.width = this.d_width
         /\ FRO_CHANNELS \notin this.d_render_main.options
         /\ FRO_COLOR_SCALE \in this.d_render_main.options

\* C21: in every frame the render thread presents, the zoom pane is drawn if
\* and only if the main pane's descriptor is in the zoom-enabled layout; with
\* zoom disabled the main pane has the full width, the color scale and no
\* channel markers.
C21_FrameConsistent ==
    \A s \in TheSinks :
        Presented(s) =>
            MainLayout(obj[s], "draw_zoom" \in worker[s].ops)

(***************************************************************************)
(* Properties of the spectrum traces (SpecZoom)                            *)
(***************************************************************************)
\* C22: the index range of the spectrum trace is [ceil(N*(center-span/2)),
\* floor(N*(center+span/2))] clamped to [1, N-1]: both end-points lie in
\* [1, N-1], bin 0 is never drawn and the vertex count is never negative.
C22_SpectrumRange ==
    \A s \in TheSinks :
        \A k \in DOMAIN gh[s].gl.spectrum :
            LET r == gh[s].gl.spectrum[k]
            IN  /\ r.idx[1] \in 1 .. r.fft_len - 1
                /\ r.idx[2] \in 1 .. r.fft_len - 1
                /\ r.len >= 0
                /\ \A a \in r.arrays : a.count >= 0 /\ a.first % r.fft_len # 0

(***************************************************************************)
(* Properties of the grid (SpecGrid)                                       *)
(***************************************************************************)
\* the vertical lines and the labels of the horizontal lines of a drawn grid
GridRest(g) ==
    /\ Len(g.v) = g.freq_n_div + 1
    /\ \A k \in DOMAIN g.h :
           /\ g.h[k].i = k - 1
           /\ g.h[k].label # << >> =>
                  g.h[k].label[1]
                      = g.power.db_ref - (10 - g.h[k].i) * g.power.db_per_div

\* C23: with live trace, max-hold or histogram enabled the grid has 10
\* horizontal lines, line i labeled reference - (10-i)*dB_per_div, and n+1
\* vertical lines for n frequency divisions.
C23_GridTenLines ==
    \A s \in TheSinks :
        \A j \in DOMAIN gh[s].gl.grid :
            LET g == gh[s].gl.grid[j]
            IN  /\ Len(g.h) = 10
                /\ GridRest(g)

\* C23 (amended): the grid has 11 horizontal lines, i = 0 .. 10, bounding 10
\* divisions; line i is labeled reference - (10-i)*dB_per_div if the pane
\* has power labels and not at all otherwise; n+1 vertical lines.
C23_GridElevenLines ==
    \A s \in TheSinks :
        \A j \in DOMAIN gh[s].gl.grid :
            LET g == gh[s].gl.grid[j]
            IN  /\ Len(g.h) = 11
                /\ \A k \in DOMAIN g.h :
                       g.h[k].label # << >> <=> FRO_LABEL_PWR \in g.options
                /\ g.h[11].label # << >> => g.h[11].label[1] = g.power.db_ref
                /\ GridRest(g)

\* the main pane was drawn after REF_UP at 10 dB/div: the labels run from
\* -90 to 10
C23_Witness ==
    \E s \in TheSinks :
        /\ obj[s].d_db_ref = 10
        /\ gh[s].gl.grid # << >>
        /\ gh[s].gl.grid[1].freq_n_div = 10
        /\ gh[s].gl.grid[1].power = [ db_ref |-> 10, db_per_div |-> 10 ]
        /\ gh[s].gl.grid[1].h[1].label = << -90 >>
        /\ gh[s].gl.grid[1].h[11].label = << 10 >>
        /\ Len(gh[s].gl.grid[1].v) = 11

(***************************************************************************)
(* Progress of the consumer (SpecStall)                                    *)
(***************************************************************************)
\* the largest FFT length set_fft_size accepts (line 446)
fft_size_max == 32768

\* the render thread of sink s is inside its main loop
Consuming(s) ==
    worker[s].pc \in {"w_loop", "r_enter", "r_drain", "r_apply", "r_layout",
                      "r_used",
                      "r_iter", "r_clamp", "r_align", "r_process",
                      "r_discard", "r_draw", "r_sleep"}

\* the FIFO of sink s holds at least 16 * fft_len unread samples, for the
\* FFT length in use and for any the sink may be set to
Backlog(s) ==
    /\ obj[s].d_active
    /\ Consuming(s)
    /\ used(obj[s].d_fifo) >= batch_mult * fft_size_max

\* the render thread is about to discard a sub-batch (line 174)
Discarding(s) == worker[s].pc = "r_discard"

\* C24: while the sink is active and its render thread runs, a FIFO holding
\* at least 16 * fft_len unread samples is followed by a render iteration
\* that discards samples, whatever pushes and set_fft_size calls came
\* before.
C24_ConsumerNeverStalls == Backlog(1) ~> Discarding(1)

\* the state the consumer does not leave: the FIFO is full, work() accepts
\* nothing, and the contiguous run at the read cursor is shorter than one
\* batch multiple of the FFT length in use
C24_Stalled ==
    \E s \in TheSinks :
        /\ Backlog(s)
        /\ free(obj[s].d_fifo) = 0
        /\ worker[s].pc = "r_draw"
        /\ worker[s].it.batches = << >>
        /\ worker[s].fft_len = obj[s].d_fft_size
        /\ read_max_size(obj[s].d_fifo) < batch_mult * obj[s].d_fft_size

(***************************************************************************)
(* Configuration changes reach the backend and the panes (SpecApply)       *)
(***************************************************************************)
\* every call of a control thread has returned
Quiet(s) == \A t \in ApplyCtls : ctl[s][t].pc = "idle"

\* the control threads have made their last call
LastReturned(s) == \A t \in ApplyCtls : ctl[s][t].pc = "idle" /\ ctl[s][t].calls = MaxCtl

\* no category of the layout or of the power range waits to be applied
NothingPending(s) ==
    /\ Consuming(s)
    /\ worker[s].pc \notin {"r_apply", "r_layout"}
    /\ obj[s].d_settings_changed
          \cap {SETTING_DIMENSIONS, SETTING_POWER_RANGE,
                SETTING_RENDER_OPTIONS} = {}

\* both descriptors are the layout of the members as they are now, and the
\* backend has the power range of d_db_ref and d_db_per_div_idx
Settled(s) ==
    /\ obj[s].d_render_main = settings_apply_layout(obj[s]).d_render_main
    /\ obj[s].d_render_zoom = settings_apply_layout(obj[s]).d_render_zoom
    /\ gh[s].power = power_range(obj[s])

\* a render iteration has ended with the last calls applied
IterationSettled(s) == worker[s].pc = "r_sleep" /\ NothingPending(s) /\ Settled(s)

\* C25: once the last cb_reshape or execute_ui_action call has returned, a
\* render iteration ends with both descriptors laid out from the final
\* width, height, zoom members and ratio and with the backend power range of
\* the final reference level and dB/div; whenever no call is in progress
\* and no category is waiting, descriptors and power range are the final
\* ones.
C25_NoChangeLost ==
    /\ [] (Quiet(1) /\ NothingPending(1) => Settled(1))
    /\ (LastReturned(1) /\ Consuming(1)) ~> IterationSettled(1)

\* both control threads changed the power range and the layout, the second
\* call while the first was being applied, and the iteration after the last
\* return has applied both
C25_Witness ==
    \E s \in TheSinks :
        /\ LastReturned(s)
        /\ IterationSettled(s)
        /\ obj[s].d_zoom_enabled
        /\ obj[s].d_db_ref = 10
        /\ gh[s].power = [ db_ref |-> 10, db_per_div |-> 10 ]
        /\ gh[s].drains = 2

(***************************************************************************)
(* Window coefficients handed to the backend (SpecWindow)                  *)
(***************************************************************************)
\* C26: every coefficient vector settings_apply hands to
\* fosphor_set_fft_window is as long as the FFT length the backend has
\* active at that call.
C26_WindowLength ==
    \A s \in TheSinks :
        \A k \in DOMAIN worker[s].wins :
            worker[s].wins[k].len = worker[s].wins[k].fft_len

(***************************************************************************)
(* Properties of the boot mutex (SpecBoot)                                 *)
(***************************************************************************)
\* the mutex is held by exactly the worker that is inside fosphor_init()
BootGuard ==
    /\ \A s \in TheSinks : s_boot_mutex = s <=> worker[s].pc = "w_fosphor_init"
    /\ \A s1, s2 \in TheSinks :
           worker[s1].pc = "w_fosphor_init" /\ worker[s2].pc = "w_fosphor_init"
               => s1 = s2

\* C10: at most one worker of the process is inside fosphor_init(), the
\* mutex is held only by that worker (so it is free again after a failed
\* fosphor_init() too), and every worker waiting for the mutex gets past it.
C10_BootSerialized ==
    /\ [] BootGuard
    /\ \A s \in Sinks :
           (worker[s].pc = "w_boot") ~> (worker[s].pc # "w_boot")

\* after a failed fosphor_init() of one sink another sink is inside its own
C10_Witness ==
    \E s1, s2 \in TheSinks :
        /\ s1 # s2
        /\ worker[s1].failed
        /\ worker[s1].pc = "w_exit"
        /\ worker[s2].pc = "w_fosphor_init"
        /\ s_boot_mutex = s2

====
